---- MODULE Spec2Model ----
(***************************************************************************)
(* Verification model of the AVAX-CPoE / Vault SDK repository:             *)
(*   - CryptoUtils (Merkle inclusion proofs, block attestation)            *)
(*   - AvaxCPoE.generateProof / verifyProof                                *)
(*   - ProductionZKProofGenerator and RealZKProofGenerator                 *)
(*   - RealZKCrossLendProtocol (on-chain nullifier registry)               *)
(*                                                                         *)
(* keccak256 is modelled as a collision-free hash: every hash value is a   *)
(* tagged tuple built from its pre-image, so two hashes are equal exactly  *)
(* when their pre-images are equal.                                        *)
(***************************************************************************)
EXTENDS Integers, Sequences, FiniteSets, Bags, TLC

VARIABLES
    mkPc,        \* Merkle harness: "input" | "generated" | "tampered"
    mkLogs,      \* logs handed to generateMerkleProof
    mkIndex,     \* targetIndex handed to generateMerkleProof
    mkOut,       \* what generateMerkleProof returned (or threw)
    mkTampered,  \* a (leaf, proof, root, index) tuple with one component replaced
    cpPc,        \* event-proof harness: "start" | "have" | "failed" | "verified"
    cpGen,       \* the last generateProof call: its inputs and whether it threw
    cpProof,     \* the proof object at hand (generated, forged or tampered with)
    cpOrigin,    \* "none" | "generated" | "forged" | "tampered"
    cpTampers,   \* how many fields of cpProof have been replaced
    cpResult,    \* the last verifyProof call: the provider's behaviour and the result
    cpNow,       \* Date.now()
    zkPc,          \* threshold-proof harness: "start" | "have" | "failed"
    zkInitialized, \* ProductionZKProofGenerator.initialized
    zkCall,        \* the last proof-generation call: generator and inputs
    zkOut,         \* its outcome: a proof or an error, and the steps it reached
    zkProof,       \* the threshold proof at hand (generated or made up)
    zkVerifies,    \* the verifications of zkProof so far, in order
    chPc,               \* RealZKCrossLendProtocol: "off" | "deployed"
    usedNullifiers,     \* the nullifier hashes n with usedNullifiers[n] = true
    userMinStakeProven, \* mapping(address => uint256)
    userStakes,         \* mapping(address => uint256)
    userBorrows,        \* mapping(address => uint256)
    chPending,          \* bag of borrowWithRealZKProof transactions submitted, not yet executed
    chDone,             \* the calls executed so far, in order, with their outcomes
    atPc,        \* attestation harness: "off" | "input" | "signed" | "replaced" |
                 \* "verified" | "verified replaced"
    atSigned,    \* the (blockHash, validatorSetHash, signature) createBlockSignature gave
    atArgs,      \* the three arguments handed to verifyBlockSignature
    atResult,    \* what verifyBlockSignature returned
    vaPc,        \* VaultSDKProtocol: "off" | "deployed"
    vault,       \* the storage and balance of the deployed VaultSDKProtocol
    vaLast,      \* the last call the contract received and its outcome
    vaCount,     \* number of calls the contract received
    app          \* what the frontend's borrowWithProof handler last did

merkleVars == <<mkPc, mkLogs, mkIndex, mkOut, mkTampered>>

cpoeVars == <<cpPc, cpGen, cpProof, cpOrigin, cpTampers, cpResult, cpNow>>

zkVars == <<zkPc, zkInitialized, zkCall, zkOut, zkProof, zkVerifies>>

chainVars == <<chPc, usedNullifiers, userMinStakeProven, userStakes, userBorrows,
               chPending, chDone>>

attestVars == <<atPc, atSigned, atArgs, atResult>>

vaultVars == <<vaPc, vault, vaLast, vaCount, app>>

\* what the actions of one component leave alone
notMerkle == <<cpoeVars, zkVars, chainVars, attestVars, vaultVars>>
notCpoe == <<merkleVars, zkVars, chainVars, attestVars, vaultVars>>
notZk == <<merkleVars, cpoeVars, chainVars, attestVars, vaultVars>>
notChain == <<merkleVars, cpoeVars, zkVars, attestVars, vaultVars>>
notAttest == <<merkleVars, cpoeVars, zkVars, chainVars, vaultVars>>
notVault == <<merkleVars, cpoeVars, zkVars, chainVars, attestVars>>

vars == <<mkPc, mkLogs, mkIndex, mkOut, mkTampered,
          cpPc, cpGen, cpProof, cpOrigin, cpTampers, cpResult, cpNow,
          zkPc, zkInitialized, zkCall, zkOut, zkProof, zkVerifies,
          chPc, usedNullifiers, userMinStakeProven, userStakes, userBorrows,
          chPending, chDone,
          atPc, atSigned, atArgs, atResult,
          vaPc, vault, vaLast, vaCount, app>>

(***************************************************************************)
(* Bounds                                                                  *)
(***************************************************************************)
MaxLogs == 5     \* longest log list handed to generateMerkleProof
MaxJunk == 2     \* number of arbitrary 32-byte values not produced by hashing
MaxTampers == 1  \* fields of one proof object an adversary replaces
MaxClock == 2    \* largest value of Date.now()
MaxPath == 1     \* longest Merkle path handed to a threshold-proof generator
MaxVerifies == 2 \* verifications of one threshold proof
MaxCalls == 3    \* transactions and calls the contract receives

(***************************************************************************)
(* Hash values                                                             *)
(***************************************************************************)

\* keccak256(abi.encode(['address','bytes32[]','bytes','uint256'],
\*                      [log.address, log.topics, log.data, log.logIndex]))
\* The transactionHash of a log is not part of the leaf.
LeafHash(log) == <<"L", log.address, log.topics, log.data, log.logIndex>>

\* keccak256(concat([arrayify(left), arrayify(right)]))
HashPair(left, right) == <<"N", left, right>>

\* an arbitrary well-formed 32-byte value that is no hash of the model
Junk(k) == <<"J", k>>

\* a string that is not a 32-byte hex value: arrayify / abi.encode throw on it
Malformed == <<"X", 0>>

IsMalformed(h) == h = Malformed

(***************************************************************************)
(* CryptoUtils.generateMerkleProof                                         *)
(***************************************************************************)

\* an unpaired last node carried up unchanged rather than paired with itself
NextLevelOddPromoted(cur) ==
    [k \in 1..((Len(cur) + 1) \div 2) |->
        IF 2 * k <= Len(cur) THEN HashPair(cur[2 * k - 1], cur[2 * k])
        ELSE cur[2 * k - 1]]

\* inner for-loop, parent nodes: right = currentLevel[i+1] || left
NextLevel(cur) ==
    [k \in 1..((Len(cur) + 1) \div 2) |->
        LET left  == cur[2 * k - 1]
            right == IF 2 * k <= Len(cur) THEN cur[2 * k] ELSE left
        IN  HashPair(left, right)]

\* the sibling pushed only when it differs from the left node of its pair
LevelSiblingsOnlyIfNotLeft(cur, currentIndex) ==
    LET i       == currentIndex - (currentIndex % 2)
        left    == cur[i + 1]
        right   == IF i + 1 < Len(cur) THEN cur[i + 2] ELSE left
        sibling == IF i = currentIndex THEN right ELSE left
    IN  IF sibling # left THEN <<sibling>> ELSE <<>>

\* inner for-loop, proof part: the sibling pushed for the pair holding
\* currentIndex (0-based), if any
LevelSiblings(cur, currentIndex) ==
    LET i       == currentIndex - (currentIndex % 2)     \* 0-based pair start
        left    == cur[i + 1]
        right   == IF i + 1 < Len(cur) THEN cur[i + 2] ELSE left
        sibling == IF i = currentIndex THEN right ELSE left
    IN  IF sibling # left \/ i + 1 < Len(cur) THEN <<sibling>> ELSE <<>>

RECURSIVE BuildProof(_, _, _)
\* while (currentLevel.length > 1) { ... }
BuildProof(cur, currentIndex, proof) ==
    IF Len(cur) > 1
    THEN BuildProof(NextLevel(cur), currentIndex \div 2,
                    proof \o LevelSiblings(cur, currentIndex))
    ELSE [proof |-> proof, root |-> cur[1]]

NoMerkleProof == [leaf |-> Junk(0), proof |-> <<>>, root |-> Junk(0), index |-> 0]

generateMerkleProof(logs, targetIndex) ==
    IF Len(logs) = 0
    THEN [ok |-> FALSE, error |-> "No logs provided for Merkle proof generation",
          value |-> NoMerkleProof]
    ELSE IF targetIndex >= Len(logs)
    THEN [ok |-> FALSE, error |-> "Target index out of bounds",
          value |-> NoMerkleProof]
    ELSE LET leaves == [k \in 1..Len(logs) |-> LeafHash(logs[k])]
             built  == BuildProof(leaves, targetIndex, <<>>)
         IN  [ok |-> TRUE, error |-> "",
              value |-> [leaf  |-> leaves[targetIndex + 1],
                         proof |-> built.proof,
                         root  |-> built.root,
                         index |-> targetIndex]]

(***************************************************************************)
(* CryptoUtils.verifyMerkleProof                                           *)
(***************************************************************************)

RECURSIVE ComputeRoot(_, _, _)
\* for (const proofElement of proof) { ... }
ComputeRoot(computedHash, proof, currentIndex) ==
    IF proof = <<>>
    THEN computedHash
    ELSE LET proofElement == Head(proof)
             next == IF currentIndex % 2 = 0
                     THEN HashPair(computedHash, proofElement)
                     ELSE HashPair(proofElement, computedHash)
         IN  ComputeRoot(next, Tail(proof), currentIndex \div 2)

\* ethers.utils.arrayify throws on a value that is no hex string; it is
\* applied to the leaf and to every proof element once the loop is entered
MerkleThrows(leaf, proof) ==
    /\ proof # <<>>
    /\ \/ IsMalformed(leaf)
       \/ \E k \in 1..Len(proof) : IsMalformed(proof[k])

\* a single-leaf shortcut that accepts an empty proof without comparing
VerifyMerkleProofEmptyShortcut(leaf, proof, root, index) ==
    \/ proof = <<>>
    \/ ComputeRoot(leaf, proof, index) = root

verifyMerkleProof(leaf, proof, root, index) ==
    ComputeRoot(leaf, proof, index) = root

(***************************************************************************)
(* CryptoUtils: block attestation                                          *)
(***************************************************************************)

\* keccak256(abi.encode(['uint256','string'], [blockNumber, 'AVALANCHE_VALIDATORS']))
generateValidatorSetHash(blockNumber) == <<"V", blockNumber>>

\* keccak256(abi.encode(['bytes32','bytes32','string'],
\*                      [blockHash, validatorSetHash, 'AVAX_CPOE_SIGNATURE']))
createBlockSignature(blockHash, validatorSetHash) ==
    <<"S", blockHash, validatorSetHash>>

\* the validator set left out of the comparison
VerifyBlockSignatureOfBlockOnly(blockHash, validatorSetHash, signature) ==
    signature[1] = "S" /\ signature[2] = blockHash

verifyBlockSignature(blockHash, validatorSetHash, signature) ==
    signature = createBlockSignature(blockHash, validatorSetHash)

(***************************************************************************)
(* The source chain as the JSON-RPC provider serves it                     *)
(***************************************************************************)

Event(a, t, d, i, tx) ==
    [address |-> a, topics |-> t, data |-> d, logIndex |-> i, transactionHash |-> tx]

\* blocks of the source chain (hash, number)
ChainBlocks == { [hash |-> 1, number |-> 10], [hash |-> 2, number |-> 11] }

\* transactions of the source chain: tx 1 emits three events, tx 2 two,
\* tx 3 one and tx 4 none
ChainTxs == 1..4

ChainReceipt(tx) ==
    CASE tx = 1 -> [blockHash |-> 1, blockNumber |-> 10,
                    logs |-> << Event(1, 1, 1, 0, 1), Event(1, 2, 1, 1, 1), Event(2, 1, 2, 2, 1) >>]
      [] tx = 2 -> [blockHash |-> 2, blockNumber |-> 11,
                    logs |-> << Event(1, 1, 1, 0, 2), Event(2, 2, 2, 1, 2) >>]
      [] tx = 3 -> [blockHash |-> 2, blockNumber |-> 11,
                    logs |-> << Event(3, 1, 1, 2, 3) >>]
      [] OTHER  -> [blockHash |-> 2, blockNumber |-> 11, logs |-> << >>]

\* every event some transaction of a block emitted
EventsOfBlock(hash, number) ==
    UNION { { (ChainReceipt(t)).logs[k] : k \in 1..Len((ChainReceipt(t)).logs) } :
            t \in { u \in ChainTxs : /\ (ChainReceipt(u)).blockHash = hash
                                      /\ (ChainReceipt(u)).blockNumber = number } }

ProviderModes == {"answer", "notfound", "throw"}

NoReceipt == [status |-> "null", blockHash |-> 0, blockNumber |-> 0, logs |-> << >>]
NoBlock == [status |-> "null", hash |-> 0, number |-> 0]

\* provider.getTransactionReceipt(transactionHash)
GetTransactionReceipt(tx, mode) ==
    IF mode = "throw" THEN [NoReceipt EXCEPT !.status = "throw"]
    ELSE IF mode = "notfound" \/ tx \notin ChainTxs THEN NoReceipt
    ELSE [status |-> "receipt",
          blockHash |-> (ChainReceipt(tx)).blockHash,
          blockNumber |-> (ChainReceipt(tx)).blockNumber,
          logs |-> (ChainReceipt(tx)).logs]

\* provider.getBlock(blockHash)
GetBlock(hash, mode) ==
    IF mode = "throw" THEN [NoBlock EXCEPT !.status = "throw"]
    ELSE IF mode = "notfound" \/ ~(\E b \in ChainBlocks : b.hash = hash) THEN NoBlock
    ELSE LET b == CHOOSE c \in ChainBlocks : c.hash = hash
         IN  [status |-> "block", hash |-> b.hash, number |-> b.number]

(***************************************************************************)
(* AvaxCPoE.generateProof                                                  *)
(***************************************************************************)

SupportedVersion == "1.0.0"

NoOption == -1     \* options.logIndex left undefined

NoProof ==
    [version |-> "", eventId |-> 0, blockHeight |-> 0, blockHash |-> 0,
     merkleProof |-> NoMerkleProof,
     eventData |-> Event(0, 0, 0, 0, 0),
     signatures |-> [blockSignature |-> Junk(0), validatorSetHash |-> Junk(0)],
     timestamp |-> 0]

GenerateFailed(message) ==
    [ok |-> FALSE, error |-> message, proof |-> NoProof]

\* generateProof with the log index clamped to the last log rather than
\* refused
GenerateProofClampedIndex(transactionHash, optLogIndex, receipt, block, now) ==
    IF receipt.status = "throw" THEN GenerateFailed("Proof generation failed: provider")
    ELSE IF receipt.status = "null" THEN GenerateFailed("Proof generation failed: Transaction not found")
    ELSE IF block.status = "throw" THEN GenerateFailed("Proof generation failed: provider")
    ELSE IF block.status = "null" THEN GenerateFailed("Proof generation failed: Block not found")
    ELSE LET asked    == IF optLogIndex = NoOption THEN 0 ELSE optLogIndex
             logIndex == IF asked >= Len(receipt.logs) /\ Len(receipt.logs) > 0
                         THEN Len(receipt.logs) - 1 ELSE asked
         IN  IF logIndex >= Len(receipt.logs)
             THEN GenerateFailed("Proof generation failed: Log index out of bounds")
             ELSE LET targetLog == receipt.logs[logIndex + 1]
                      merkle == generateMerkleProof(receipt.logs, logIndex)
                      validatorSetHash == generateValidatorSetHash(block.number)
                      blockSignature == createBlockSignature(block.hash, validatorSetHash)
                  IN  IF ~merkle.ok
                      THEN GenerateFailed("Proof generation failed: Merkle")
                      ELSE [ok |-> TRUE, error |-> "",
                            proof |->
                              [version |-> SupportedVersion,
                               eventId |-> transactionHash,
                               blockHeight |-> block.number,
                               blockHash |-> block.hash,
                               merkleProof |-> merkle.value,
                               eventData |-> Event(targetLog.address, targetLog.topics,
                                                   targetLog.data, targetLog.logIndex,
                                                   targetLog.transactionHash),
                               signatures |-> [blockSignature |-> blockSignature,
                                               validatorSetHash |-> validatorSetHash],
                               timestamp |-> now]]

\* receipt and block are what the provider answered to getTransactionReceipt
\* and to getBlock(receipt.blockHash)
generateProof(transactionHash, optLogIndex, receipt, block, now) ==
    IF receipt.status = "throw" THEN GenerateFailed("Proof generation failed: provider")
    ELSE IF receipt.status = "null" THEN GenerateFailed("Proof generation failed: Transaction not found")
    ELSE IF block.status = "throw" THEN GenerateFailed("Proof generation failed: provider")
    ELSE IF block.status = "null" THEN GenerateFailed("Proof generation failed: Block not found")
    ELSE LET logIndex == IF optLogIndex = NoOption THEN 0 ELSE optLogIndex   \* options.logIndex || 0
         IN  IF logIndex >= Len(receipt.logs)
             THEN GenerateFailed("Proof generation failed: Log index out of bounds")
             ELSE LET targetLog == receipt.logs[logIndex + 1]
                      merkle == generateMerkleProof(receipt.logs, logIndex)
                      validatorSetHash == generateValidatorSetHash(block.number)
                      blockSignature == createBlockSignature(block.hash, validatorSetHash)
                  IN  IF ~merkle.ok
                      THEN GenerateFailed("Proof generation failed: Merkle")
                      ELSE [ok |-> TRUE, error |-> "",
                            proof |->
                              [version |-> SupportedVersion,
                               eventId |-> transactionHash,
                               blockHeight |-> block.number,
                               blockHash |-> block.hash,
                               merkleProof |-> merkle.value,
                               eventData |-> Event(targetLog.address, targetLog.topics,
                                                   targetLog.data, targetLog.logIndex,
                                                   targetLog.transactionHash),
                               signatures |-> [blockSignature |-> blockSignature,
                                               validatorSetHash |-> validatorSetHash],
                               timestamp |-> now]]

(***************************************************************************)
(* AvaxCPoE.verifyProof                                                    *)
(***************************************************************************)

VerifyResult(isValid, blockValid, merkleValid, signatureValid, eventValid, errors, calls) ==
    [isValid |-> isValid,
     details |-> [merkleValid |-> merkleValid, signatureValid |-> signatureValid,
                  blockValid |-> blockValid, eventValid |-> eventValid],
     errors |-> errors,
     calls |-> calls]      \* the work done, in order (not part of the returned object)

\* Step 5 dropped: the event data is never re-hashed
VerifyProofNoEventCheck(proof, block) ==
    IF proof.version # SupportedVersion
    THEN VerifyResult(FALSE, FALSE, FALSE, FALSE, FALSE, <<"Unsupported proof version">>, << >>)
    ELSE IF block.status = "throw"
    THEN VerifyResult(FALSE, FALSE, FALSE, FALSE, FALSE, <<"Block verification error">>, <<"getBlock">>)
    ELSE IF block.status = "null" \/ block.number # proof.blockHeight
    THEN VerifyResult(FALSE, FALSE, FALSE, FALSE, FALSE, <<"Block validation failed">>, <<"getBlock">>)
    ELSE IF MerkleThrows(proof.merkleProof.leaf, proof.merkleProof.proof)
    THEN VerifyResult(FALSE, TRUE, FALSE, FALSE, FALSE, <<"Verification error">>,
                      <<"getBlock", "merkle">>)
    ELSE IF ~verifyMerkleProof(proof.merkleProof.leaf, proof.merkleProof.proof,
                               proof.merkleProof.root, proof.merkleProof.index)
    THEN VerifyResult(FALSE, TRUE, FALSE, FALSE, FALSE, <<"Merkle proof verification failed">>,
                      <<"getBlock", "merkle">>)
    ELSE IF IsMalformed(proof.signatures.validatorSetHash)
    THEN VerifyResult(FALSE, TRUE, TRUE, FALSE, FALSE, <<"Verification error">>,
                      <<"getBlock", "merkle", "signature">>)
    ELSE IF ~verifyBlockSignature(proof.blockHash, proof.signatures.validatorSetHash,
                                  proof.signatures.blockSignature)
    THEN VerifyResult(FALSE, TRUE, TRUE, FALSE, FALSE, <<"Block signature verification failed">>,
                      <<"getBlock", "merkle", "signature">>)
    ELSE VerifyResult(TRUE, TRUE, TRUE, TRUE, TRUE, << >>,
                      <<"getBlock", "merkle", "signature", "event">>)

\* block is what the provider answered to getBlock(proof.blockHash)
\* Steps 1 and 2 exchanged: the block is fetched before the version is looked at
VerifyProofBlockFirst(proof, block) ==
    IF block.status = "throw"
    THEN VerifyResult(FALSE, FALSE, FALSE, FALSE, FALSE, <<"Block verification error">>, <<"getBlock">>)
    ELSE IF block.status = "null" \/ block.number # proof.blockHeight
    THEN VerifyResult(FALSE, FALSE, FALSE, FALSE, FALSE, <<"Block validation failed">>, <<"getBlock">>)
    ELSE IF proof.version # SupportedVersion
    THEN VerifyResult(FALSE, TRUE, FALSE, FALSE, FALSE, <<"Unsupported proof version">>,
                      <<"getBlock">>)
    ELSE IF MerkleThrows(proof.merkleProof.leaf, proof.merkleProof.proof)
    THEN VerifyResult(FALSE, TRUE, FALSE, FALSE, FALSE, <<"Verification error">>,
                      <<"getBlock", "merkle">>)
    ELSE IF ~verifyMerkleProof(proof.merkleProof.leaf, proof.merkleProof.proof,
                               proof.merkleProof.root, proof.merkleProof.index)
    THEN VerifyResult(FALSE, TRUE, FALSE, FALSE, FALSE, <<"Merkle proof verification failed">>,
                      <<"getBlock", "merkle">>)
    ELSE IF IsMalformed(proof.signatures.validatorSetHash)
    THEN VerifyResult(FALSE, TRUE, TRUE, FALSE, FALSE, <<"Verification error">>,
                      <<"getBlock", "merkle", "signature">>)
    ELSE IF ~verifyBlockSignature(proof.blockHash, proof.signatures.validatorSetHash,
                                  proof.signatures.blockSignature)
    THEN VerifyResult(FALSE, TRUE, TRUE, FALSE, FALSE, <<"Block signature verification failed">>,
                      <<"getBlock", "merkle", "signature">>)
    ELSE IF LeafHash(proof.eventData) # proof.merkleProof.leaf
    THEN VerifyResult(FALSE, TRUE, TRUE, TRUE, FALSE, <<"Event data integrity check failed">>,
                      <<"getBlock", "merkle", "signature", "event">>)
    ELSE VerifyResult(TRUE, TRUE, TRUE, TRUE, TRUE, << >>,
                      <<"getBlock", "merkle", "signature", "event">>)

\* the promise of verifyProof rejected: what a call would give if an
\* exception left the function
VerifyThrew(calls) == [threw |-> TRUE, calls |-> calls]

\* verifyProof without its outer try/catch
VerifyProofNoOuterCatch(proof, block) ==
    \* Step 1: proof format and version
    IF proof.version # SupportedVersion
    THEN VerifyResult(FALSE, FALSE, FALSE, FALSE, FALSE, <<"Unsupported proof version">>, << >>)
    \* Step 2: the block exists on the chain (inner try/catch)
    ELSE IF block.status = "throw"
    THEN VerifyResult(FALSE, FALSE, FALSE, FALSE, FALSE, <<"Block verification error">>, <<"getBlock">>)
    ELSE IF block.status = "null" \/ block.number # proof.blockHeight
    THEN VerifyResult(FALSE, FALSE, FALSE, FALSE, FALSE, <<"Block validation failed">>, <<"getBlock">>)
    \* Step 3: Merkle proof (arrayify throwing lands in the outer catch)
    ELSE IF MerkleThrows(proof.merkleProof.leaf, proof.merkleProof.proof)
    THEN VerifyThrew(<<"getBlock", "merkle">>)
    ELSE IF ~verifyMerkleProof(proof.merkleProof.leaf, proof.merkleProof.proof,
                               proof.merkleProof.root, proof.merkleProof.index)
    THEN VerifyResult(FALSE, TRUE, FALSE, FALSE, FALSE, <<"Merkle proof verification failed">>,
                      <<"getBlock", "merkle">>)
    \* Step 4: block signature (abi.encode of a malformed bytes32 throws)
    ELSE IF IsMalformed(proof.signatures.validatorSetHash)
    THEN VerifyThrew(<<"getBlock", "merkle", "signature">>)
    ELSE IF ~verifyBlockSignature(proof.blockHash, proof.signatures.validatorSetHash,
                                  proof.signatures.blockSignature)
    THEN VerifyResult(FALSE, TRUE, TRUE, FALSE, FALSE, <<"Block signature verification failed">>,
                      <<"getBlock", "merkle", "signature">>)
    \* Step 5: event data integrity
    ELSE IF LeafHash(proof.eventData) # proof.merkleProof.leaf
    THEN VerifyResult(FALSE, TRUE, TRUE, TRUE, FALSE, <<"Event data integrity check failed">>,
                      <<"getBlock", "merkle", "signature", "event">>)
    ELSE VerifyResult(TRUE, TRUE, TRUE, TRUE, TRUE, << >>,
                      <<"getBlock", "merkle", "signature", "event">>)

verifyProof(proof, block) ==
    \* Step 1: proof format and version
    IF proof.version # SupportedVersion
    THEN VerifyResult(FALSE, FALSE, FALSE, FALSE, FALSE, <<"Unsupported proof version">>, << >>)
    \* Step 2: the block exists on the chain (inner try/catch)
    ELSE IF block.status = "throw"
    THEN VerifyResult(FALSE, FALSE, FALSE, FALSE, FALSE, <<"Block verification error">>, <<"getBlock">>)
    ELSE IF block.status = "null" \/ block.number # proof.blockHeight
    THEN VerifyResult(FALSE, FALSE, FALSE, FALSE, FALSE, <<"Block validation failed">>, <<"getBlock">>)
    \* Step 3: Merkle proof (arrayify throwing lands in the outer catch)
    ELSE IF MerkleThrows(proof.merkleProof.leaf, proof.merkleProof.proof)
    THEN VerifyResult(FALSE, TRUE, FALSE, FALSE, FALSE, <<"Verification error">>,
                      <<"getBlock", "merkle">>)
    ELSE IF ~verifyMerkleProof(proof.merkleProof.leaf, proof.merkleProof.proof,
                               proof.merkleProof.root, proof.merkleProof.index)
    THEN VerifyResult(FALSE, TRUE, FALSE, FALSE, FALSE, <<"Merkle proof verification failed">>,
                      <<"getBlock", "merkle">>)
    \* Step 4: block signature (abi.encode of a malformed bytes32 throws)
    ELSE IF IsMalformed(proof.signatures.validatorSetHash)
    THEN VerifyResult(FALSE, TRUE, TRUE, FALSE, FALSE, <<"Verification error">>,
                      <<"getBlock", "merkle", "signature">>)
    ELSE IF ~verifyBlockSignature(proof.blockHash, proof.signatures.validatorSetHash,
                                  proof.signatures.blockSignature)
    THEN VerifyResult(FALSE, TRUE, TRUE, FALSE, FALSE, <<"Block signature verification failed">>,
                      <<"getBlock", "merkle", "signature">>)
    \* Step 5: event data integrity
    ELSE IF LeafHash(proof.eventData) # proof.merkleProof.leaf
    THEN VerifyResult(FALSE, TRUE, TRUE, TRUE, FALSE, <<"Event data integrity check failed">>,
                      <<"getBlock", "merkle", "signature", "event">>)
    ELSE VerifyResult(TRUE, TRUE, TRUE, TRUE, TRUE, << >>,
                      <<"getBlock", "merkle", "signature", "event">>)

(***************************************************************************)
(* Threshold proofs: values                                                *)
(*                                                                         *)
(* Amounts, secrets and Merkle path elements are decimal strings of        *)
(* unsigned integers, kept as naturals. Hash outputs are tagged tuples.    *)
(***************************************************************************)

\* The BN128 base-field prime 2188...8583 is beyond the model checker's
\* integers; this prime stands for it. Every amount of the model is below it.
FieldP == 10007

\* the two values encoded in the other order
NullifierArgumentsSwapped(userSecret, actualAmount) == <<"K", actualAmount, userSecret>>

\* keccak256(abi.encode(['uint256','uint256'], [userSecret, actualAmount])),
\* as a decimal string
computeRealNullifier(userSecret, actualAmount) == <<"K", userSecret, actualAmount>>

\* circomlib poseidon([userSecret, actualAmount])
poseidonHash(userSecret, actualAmount) == <<"PZ", userSecret, actualAmount>>

\* a decimal string used as the seed of a hash
Str(n) == <<"n", n>>

\* JavaScript string concatenation: of two decimal strings, and of a decimal
\* string with the decimal string of a hash
RECURSIVE Pow10Above(_, _)
Pow10Above(n, acc) == IF acc > n THEN acc ELSE Pow10Above(n, acc * 10)

ConcatDecimal(x, y) == Str(x * Pow10Above(y, 10) + y)

ConcatHash(x, h) == <<"cat", x, h>>

(***************************************************************************)
(* ProductionZKProofGenerator.generateProductionProof                      *)
(***************************************************************************)

\* the seed returned as the coordinate, unhashed
CurvePointIsSeed(type, seed) == seed

\* keccak256(abi.encode(['string','string'], [type, seed])) % p: always < p
generateValidCurvePoint(type, seed) == <<"P", type, seed>>

\* (a * 31 + b * 37) % p with a <= b
ProductionHashPair(left, right) ==
    LET a == IF left < right THEN left ELSE right
        b == IF left < right THEN right ELSE left
    IN  (a * 31 + b * 37) % FieldP

CircuitDepth == 10

\* pathIndices[i] when i is past the end of the array is undefined, which is
\* not === 0
PathIndexIsLeft(pathIndices, i) == i <= Len(pathIndices) /\ pathIndices[i] = 0

RECURSIVE ProductionMerkleRoot(_, _, _, _)
\* for (let i = 0; i < pathElements.length && i < 10; i++)
ProductionMerkleRoot(computedHash, pathElements, pathIndices, i) ==
    IF i > Len(pathElements) \/ i > CircuitDepth
    THEN computedHash
    ELSE LET pathElement == pathElements[i]
             next == IF PathIndexIsLeft(pathIndices, i)
                     THEN ProductionHashPair(computedHash, pathElement)
                     ELSE ProductionHashPair(pathElement, computedHash)
         IN  ProductionMerkleRoot(next, pathElements, pathIndices, i + 1)

verifyProductionMerkleProof(leaf, pathElements, pathIndices, root) ==
    ProductionMerkleRoot(leaf, pathElements, pathIndices, 1) = root

ConstraintThreshold == "CONSTRAINT VIOLATION: actualAmount < minAmount"
ConstraintMerkle == "CONSTRAINT VIOLATION: Invalid Merkle inclusion proof"
ConstraintNullifier == "CONSTRAINT VIOLATION: Invalid nullifier hash"

\* the threshold constraint with its operands swapped
ThresholdViolatedSwapped(actualAmount, minAmount) == minAmount < actualAmount

\* CONSTRAINT 1: if (actualAmount < minAmount) throw
ThresholdViolated(actualAmount, minAmount) == actualAmount < minAmount

\* the outcome of generateProductionWitness: "" when every constraint holds,
\* otherwise the message of the error thrown
generateProductionWitness(inputs) ==
    IF ThresholdViolated(inputs.actualAmount, inputs.minAmount)
    THEN ConstraintThreshold
    ELSE IF ~verifyProductionMerkleProof(inputs.actualAmount, inputs.merklePathElements,
                                         inputs.merklePathIndices, inputs.merkleRoot)
    THEN ConstraintMerkle
    ELSE IF computeRealNullifier(inputs.userSecret, inputs.actualAmount) # inputs.nullifierHash
    THEN ConstraintNullifier
    ELSE ""

generateGroth16Proof(inputs) ==
    [pi_a |-> << generateValidCurvePoint("a", Str(inputs.actualAmount)),
                 generateValidCurvePoint("a", Str(inputs.userSecret)) >>,
     pi_b |-> << << generateValidCurvePoint("b1", Str(inputs.minAmount)),
                    generateValidCurvePoint("b1", Str(inputs.merkleRoot)) >>,
                 << generateValidCurvePoint("b2", inputs.nullifierHash),
                    generateValidCurvePoint("b2", Str(inputs.actualAmount)) >> >>,
     pi_c |-> << generateValidCurvePoint("c", ConcatDecimal(inputs.actualAmount, inputs.minAmount)),
                 generateValidCurvePoint("c", ConcatHash(inputs.userSecret, inputs.nullifierHash)) >>]

NoThresholdProof ==
    [kind |-> "none", version |-> "", protocol |-> "", curve |-> "", eventId |-> 0,
     nullifierHash |-> <<"K", 0, 0>>,
     proof |-> [a |-> << >>, b |-> << >>, c |-> << >>, publicSignals |-> << >>]]

\* the catch block rethrows with the message prefixed by "Production ZK proof
\* generation failed: " (resp. "ZK proof generation failed: "); error
\* is the message of the error caught
ZkFailed(message, steps) ==
    [ok |-> FALSE, error |-> message, steps |-> steps, proof |-> NoThresholdProof]

\* privateInputs: actualAmount, userSecret, merkleProof, merkleIndices
\* publicInputs:  minAmount, merkleRoot, eventId
generateProductionProof(initialized, privateInputs, publicInputs) ==
    IF ~initialized
    THEN ZkFailed("ZK circuit not initialized", << >>)
    ELSE
    LET nullifierHash == computeRealNullifier(privateInputs.userSecret,
                                              privateInputs.actualAmount)
        circuitInputs ==
            [actualAmount |-> privateInputs.actualAmount,
             userSecret |-> privateInputs.userSecret,
             \* merkleProof.slice(0, 10).map(p => p || "0")
             merklePathElements |->
                 SubSeq(privateInputs.merkleProof, 1,
                        IF Len(privateInputs.merkleProof) < CircuitDepth
                        THEN Len(privateInputs.merkleProof) ELSE CircuitDepth),
             merklePathIndices |->
                 SubSeq(privateInputs.merkleIndices, 1,
                        IF Len(privateInputs.merkleIndices) < CircuitDepth
                        THEN Len(privateInputs.merkleIndices) ELSE CircuitDepth),
             minAmount |-> publicInputs.minAmount,
             merkleRoot |-> publicInputs.merkleRoot,
             nullifierHash |-> nullifierHash]
        violation == generateProductionWitness(circuitInputs)
        points == generateGroth16Proof(circuitInputs)
    IN  IF violation # ""
        THEN ZkFailed(violation, <<"nullifier", "witness">>)
        ELSE [ok |-> TRUE, error |-> "",
              steps |-> <<"nullifier", "witness", "groth16">>,
              proof |->
                [kind |-> "production",
                 version |-> "1.0.0-production",
                 protocol |-> "groth16",
                 curve |-> "bn128",
                 eventId |-> publicInputs.eventId,
                 nullifierHash |-> nullifierHash,
                 proof |->
                   [a |-> << points.pi_a[1], points.pi_a[2] >>,
                    b |-> << << points.pi_b[1][2], points.pi_b[1][1] >>,
                             << points.pi_b[2][2], points.pi_b[2][1] >> >>,
                    c |-> << points.pi_c[1], points.pi_c[2] >>,
                    publicSignals |-> << publicInputs.minAmount,
                                         publicInputs.merkleRoot,
                                         nullifierHash >>]]]

(***************************************************************************)
(* ProductionZKProofGenerator.verifyProductionProof                        *)
(***************************************************************************)

\* A coordinate of a proof point is one of
\*   <<"P", type, seed>>   a value generateValidCurvePoint returned (< p)
\*   <<"num", k>>          some other value below p
\*   <<"big", k>>          a value >= p
\*   <<"G", role, sigs>>   a coordinate of the Groth16 proof an honest prover
\*                         computes for the public signals sigs (< p)
BelowFieldP(x) == x[1] # "big"

\* the proof points a real Groth16 prover outputs for given public signals
GenuinePoints(publicSignals) ==
    [a |-> << <<"G", "ax", publicSignals>>, <<"G", "ay", publicSignals>> >>,
     b |-> << << <<"G", "bx1", publicSignals>>, <<"G", "bx0", publicSignals>> >>,
              << <<"G", "by1", publicSignals>>, <<"G", "by0", publicSignals>> >> >>,
     c |-> << <<"G", "cx", publicSignals>>, <<"G", "cy", publicSignals>> >>]

\* the Groth16 pairing equation for the fixed verification key: it holds of
\* the proof an honest prover computes for these public signals and of no
\* other points of the model
PairingEquationHolds(a, b, c, publicSignals) ==
    /\ a = (GenuinePoints(publicSignals)).a
    /\ b = (GenuinePoints(publicSignals)).b
    /\ c = (GenuinePoints(publicSignals)).c

validateCurvePoints(a, b, c) ==
    LET aValid == BelowFieldP(a[1]) /\ BelowFieldP(a[2])
        bValid == /\ BelowFieldP(b[1][1]) /\ BelowFieldP(b[1][2])
                  /\ BelowFieldP(b[2][1]) /\ BelowFieldP(b[2][2])
        cValid == BelowFieldP(c[1]) /\ BelowFieldP(c[2])
    IN  aValid /\ bValid /\ cValid

\* const pairingValid = true
simulatePairingVerification(a, b, c, publicSignals) == TRUE

Rejected(message) == [accepted |-> FALSE, error |-> message]
Accepted == [accepted |-> TRUE, error |-> ""]

verifyProductionProof(proof) ==
    LET a == proof.proof.a
        b == proof.proof.b
        c == proof.proof.c
        publicSignals == proof.proof.publicSignals
    IN  \* Step 2: proof format
        IF Len(a) # 2 THEN Rejected("Invalid proof point A")
        ELSE IF Len(b) # 2 \/ Len(b[1]) # 2 THEN Rejected("Invalid proof point B")
        ELSE IF Len(c) # 2 THEN Rejected("Invalid proof point C")
        ELSE IF Len(publicSignals) # 3 THEN Rejected("Invalid public signals")
        \* Step 3: BigInt(b[1][1]) of a missing coordinate throws
        ELSE IF Len(b[2]) # 2 THEN Rejected("TypeError")
        ELSE IF ~validateCurvePoints(a, b, c) THEN Rejected("Invalid elliptic curve points")
        \* Step 4: public inputs
        ELSE IF publicSignals[1] <= 0 THEN Rejected("Invalid minimum amount")
        ELSE IF publicSignals[2] = 0 THEN Rejected("Invalid Merkle root")
        \* Step 5: pairing
        ELSE IF ~simulatePairingVerification(a, b, c, publicSignals)
        THEN Rejected("Pairing verification failed")
        ELSE Accepted

(***************************************************************************)
(* RealZKProofGenerator                                                    *)
(*                                                                         *)
(* A big integer is <<"n", k>> (the number k) or a keccak256 output.  A    *)
(* coordinate of a proof point is <<"R", r>>, r its value modulo 1000,     *)
(* the only part of it verifyPairing reads.                                *)
(***************************************************************************)

\* left < right on big integers: a keccak256 output is above every amount
BigLess(x, y) ==
    IF x[1] = "n" /\ y[1] = "n" THEN x[2] < y[2]
    ELSE x[1] = "n" /\ y[1] # "n"

\* BigInt(keccak256(abi.encode(['uint256','uint256'], left < right ? [left, right] : [right, left])))
RealHashPair(left, right) ==
    IF BigLess(left, right) THEN <<"HP", left, right>> ELSE <<"HP", right, left>>

RECURSIVE RealMerkleRoot(_, _, _, _)
\* for (let i = 0; i < pathElements.length; i++)
RealMerkleRoot(computedHash, pathElements, pathIndices, i) ==
    IF i > Len(pathElements)
    THEN computedHash
    ELSE LET pathElement == Str(pathElements[i])
             next == IF PathIndexIsLeft(pathIndices, i)
                     THEN RealHashPair(computedHash, pathElement)
                     ELSE RealHashPair(pathElement, computedHash)
         IN  RealMerkleRoot(next, pathElements, pathIndices, i + 1)

verifyMerkleConstraint(leaf, pathElements, pathIndices, root) ==
    RealMerkleRoot(Str(leaf), pathElements, pathIndices, 1) = root

RealConstraintThreshold == "Constraint violated: actualAmount < minAmount"
RealConstraintMerkle == "Constraint violated: Invalid Merkle proof"
RealConstraintNullifier == "Constraint violated: Invalid nullifier"

\* the outcome of generateWitness: "" when every constraint holds, otherwise
\* the message of the error thrown
generateWitness(inputs) ==
    IF ThresholdViolated(inputs.actualAmount, inputs.minAmount)
    THEN RealConstraintThreshold
    ELSE IF ~verifyMerkleConstraint(inputs.actualAmount, inputs.merklePathElement,
                                    inputs.merklePathIndex, inputs.merkleRoot)
    THEN RealConstraintMerkle
    ELSE IF poseidonHash(inputs.userSecret, inputs.actualAmount) # inputs.nullifierHash
    THEN RealConstraintNullifier
    ELSE ""

\* the fixed points of groth16Prove, modulo 1000
groth16Prove ==
    [pi_a |-> << <<"R", 360>>, <<"R", 225>> >>,
     pi_b |-> << << <<"R", 170>>, <<"R", 700>> >>,
                 << <<"R", 230>>, <<"R", 760>> >> >>,
     pi_c |-> << <<"R", 240>>, <<"R", 555>> >>]

generateRealZKProof(privateInputs, publicInputs) ==
    LET nullifierHash == poseidonHash(privateInputs.userSecret, privateInputs.actualAmount)
        circuitInputs ==
            [actualAmount |-> privateInputs.actualAmount,
             userSecret |-> privateInputs.userSecret,
             merklePathElement |-> privateInputs.merkleProof,
             merklePathIndex |-> privateInputs.merkleIndices,
             minAmount |-> publicInputs.minAmount,
             merkleRoot |-> publicInputs.merkleRoot,
             nullifierHash |-> nullifierHash]
        violation == generateWitness(circuitInputs)
        points == groth16Prove
    IN  IF violation # ""
        THEN ZkFailed(violation, <<"nullifier", "witness">>)
        ELSE [ok |-> TRUE, error |-> "",
              steps |-> <<"nullifier", "witness", "groth16">>,
              proof |->
                [kind |-> "real",
                 version |-> "1.0.0",
                 protocol |-> "groth16",
                 curve |-> "bn128",
                 eventId |-> publicInputs.eventId,
                 nullifierHash |-> nullifierHash,
                 proof |->
                   [a |-> << points.pi_a[1], points.pi_a[2] >>,
                    b |-> << << points.pi_b[1][2], points.pi_b[1][1] >>,
                             << points.pi_b[2][2], points.pi_b[2][1] >> >>,
                    c |-> << points.pi_c[1], points.pi_c[2] >>,
                    publicSignals |-> << publicInputs.minAmount,
                                         publicInputs.merkleRoot,
                                         nullifierHash >>]]]

\* (BigInt(a[0]) * BigInt(b[0][0])) % 1000 === (BigInt(c[0]) * BigInt(publicSignals[0])) % 1000
verifyPairing(a, b, c, publicSignals) ==
    LET leftSide  == a[1][2] * b[1][1][2]
        rightSide == c[1][2] * (publicSignals[1] % 1000)
    IN  leftSide % 1000 = rightSide % 1000

verifyRealZKProof(proof) ==
    LET a == proof.proof.a
        b == proof.proof.b
        c == proof.proof.c
        publicSignals == proof.proof.publicSignals
    IN  \* Step 2: proof format
        IF Len(a) # 2 THEN Rejected("Invalid proof point A")
        ELSE IF Len(b) # 2 \/ Len(b[1]) # 2 THEN Rejected("Invalid proof point B")
        ELSE IF Len(c) # 2 THEN Rejected("Invalid proof point C")
        ELSE IF Len(publicSignals) # 3 THEN Rejected("Invalid public signals")
        \* Step 3: pairing
        ELSE IF ~verifyPairing(a, b, c, publicSignals)
        THEN Rejected("Pairing verification failed")
        \* Step 4: public inputs
        ELSE IF publicSignals[1] <= 0 THEN Rejected("Invalid minimum amount")
        ELSE Accepted

(***************************************************************************)
(* RealZKVerifier and RealZKCrossLendProtocol (Solidity ^0.8.19)           *)
(*                                                                         *)
(* uint256 arithmetic is checked: a result outside the word reverts the    *)
(* call.  The word is scaled from 2^256 to 2^WordBits and the scalar field *)
(* with it, keeping their ratio (the field is about 0.19 of the word), so  *)
(* that minAmount * ZK_LTV_BONUS can leave the word for a minAmount below  *)
(* the field, as it can on chain.                                          *)
(***************************************************************************)

WordBits == 8
WordModulus == 2 ^ WordBits

\* uint256 snark_scalar_field
SnarkScalarField == 48

ZK_LTV_BONUS == 75
STANDARD_LTV == 70

\* the bn128 precompiles fail on coordinates that are not points of the
\* curve; Pairing.pairing then executes invalid()
PointsOnCurve(pA, pB, pC) ==
    /\ pA[1][1] = "G" /\ pA[2][1] = "G"
    /\ pB[1][1][1] = "G" /\ pB[1][2][1] = "G"
    /\ pB[2][1][1] = "G" /\ pB[2][2][1] = "G"
    /\ pC[1][1] = "G" /\ pC[2][1] = "G"

\* RealZKVerifier.verifyProof: "revert" | "invalid" | "true" | "false".
\* The verification key is taken to be one for which the precompiles
\* accept the key's own points.
RealZKVerifier_verifyProof(pA, pB, pC, input) ==
    IF \E i \in 1..Len(input) : ~(input[i] < SnarkScalarField)
    THEN "revert"
    ELSE IF ~PointsOnCurve(pA, pB, pC)
    THEN "invalid"
    ELSE IF PairingEquationHolds(pA, pB, pC, input)
    THEN "true"
    ELSE "false"

verifyTx(pA, pB, pC, input) ==
    LET success == RealZKVerifier_verifyProof(pA, pB, pC, input)
    IN  IF success \in {"revert", "invalid"}
        THEN [outcome |-> success, r |-> FALSE, events |-> << >>]
        ELSE [outcome |-> "ok", r |-> (success = "true"),
              events |-> << [name |-> "ZKProofVerified", success |-> (success = "true"),
                             minAmountProven |-> input[1], nullifierHash |-> input[3]] >>]

\* the storage borrowWithRealZKProof reads and writes
BorrowState(used, borrows, proven) ==
    [usedNullifiers |-> used, userBorrows |-> borrows, userMinStakeProven |-> proven]

\* a reverted call: every storage write and event of the call is undone
BorrowReverted(st, reason) == [outcome |-> reason, state |-> st, events |-> << >>]

BorrowAccepted(st, v, minAmount, nullifierHash, user, borrowAmount) ==
    [outcome |-> "ok",
     state |-> [usedNullifiers |-> st.usedNullifiers \cup {nullifierHash},
                userBorrows |-> [st.userBorrows EXCEPT ![user] = @ + borrowAmount],
                userMinStakeProven |-> [st.userMinStakeProven EXCEPT ![user] = minAmount]],
     events |-> v.events \o
                << [name |-> "RealZKBorrowEvent", user |-> user,
                    borrowAmount |-> borrowAmount, minCollateralProven |-> minAmount,
                    nullifierHash |-> nullifierHash, zkProofValid |-> v.r] >>]

\* borrowWithRealZKProof without its require(!usedNullifiers[nullifierHash])
BorrowWithoutNullifierCheck(st, pA, pB, pC, publicInputs, user) ==
    LET minAmount == publicInputs[1]
        nullifierHash == publicInputs[3]
        v == verifyTx(pA, pB, pC, publicInputs)
        borrowAmount == (minAmount * ZK_LTV_BONUS) \div 100
    IN  IF v.outcome # "ok"
        THEN BorrowReverted(st, v.outcome)
        ELSE IF ~v.r
        THEN BorrowReverted(st, "ZK proof verification failed")
        ELSE IF minAmount * ZK_LTV_BONUS >= WordModulus
        THEN BorrowReverted(st, "overflow")
        ELSE IF st.userBorrows[user] + borrowAmount >= WordModulus
        THEN BorrowReverted(st, "overflow")
        ELSE BorrowAccepted(st, v, minAmount, nullifierHash, user, borrowAmount)

\* borrowWithRealZKProof marking the nullifier before the proof is verified
\* and returning, instead of reverting, when verification fails
BorrowMarkingBeforeVerification(st, pA, pB, pC, publicInputs, user) ==
    LET minAmount == publicInputs[1]
        nullifierHash == publicInputs[3]
        v == verifyTx(pA, pB, pC, publicInputs)
        borrowAmount == (minAmount * ZK_LTV_BONUS) \div 100
        marked == [st EXCEPT !.usedNullifiers = @ \cup {nullifierHash}]
    IN  IF nullifierHash \in st.usedNullifiers
        THEN BorrowReverted(st, "Nullifier already used")
        ELSE IF v.outcome # "ok"
        THEN BorrowReverted(st, v.outcome)
        ELSE IF ~v.r
        THEN [outcome |-> "ZK proof verification failed", state |-> marked, events |-> v.events]
        ELSE IF minAmount * ZK_LTV_BONUS >= WordModulus
        THEN BorrowReverted(st, "overflow")
        ELSE IF st.userBorrows[user] + borrowAmount >= WordModulus
        THEN BorrowReverted(st, "overflow")
        ELSE BorrowAccepted(st, v, minAmount, nullifierHash, user, borrowAmount)

\* one transaction: it runs to its end or reverts as a whole (the function
\* calls nothing but the verifier's precompiles)
borrowWithRealZKProof(st, pA, pB, pC, publicInputs, user) ==
    LET minAmount == publicInputs[1]
        nullifierHash == publicInputs[3]
        v == verifyTx(pA, pB, pC, publicInputs)
        borrowAmount == (minAmount * ZK_LTV_BONUS) \div 100
    IN  IF nullifierHash \in st.usedNullifiers
        THEN BorrowReverted(st, "Nullifier already used")
        ELSE IF v.outcome # "ok"
        THEN BorrowReverted(st, v.outcome)
        ELSE IF ~v.r
        THEN BorrowReverted(st, "ZK proof verification failed")
        ELSE IF minAmount * ZK_LTV_BONUS >= WordModulus
        THEN BorrowReverted(st, "overflow")
        ELSE IF st.userBorrows[user] + borrowAmount >= WordModulus
        THEN BorrowReverted(st, "overflow")
        ELSE BorrowAccepted(st, v, minAmount, nullifierHash, user, borrowAmount)

stakeAVAX(stakes, sender, value) ==
    IF ~(value > 0)
    THEN [outcome |-> "Must stake positive amount", userStakes |-> stakes, events |-> << >>]
    ELSE IF stakes[sender] + value >= WordModulus
    THEN [outcome |-> "overflow", userStakes |-> stakes, events |-> << >>]
    ELSE [outcome |-> "ok",
          userStakes |-> [stakes EXCEPT ![sender] = @ + value],
          events |-> << [name |-> "StakeEvent", user |-> sender, amount |-> value] >>]

getZKStats == << 0, 0, ZK_LTV_BONUS - STANDARD_LTV, 0 >>

isNullifierUsed(used, nullifierHash) == nullifierHash \in used

(***************************************************************************)
(* VaultSDKProtocol (contracts/CrossLendProtocol.sol)                      *)
(*                                                                         *)
(* Amounts are wei, scaled down so that the uint256 word is WordModulus.   *)
(* Arithmetic is checked (Solidity 0.8): a result outside the word makes   *)
(* the transaction revert with a panic. A reverted transaction leaves the  *)
(* storage and the balance as they were.                                   *)
(***************************************************************************)

COLLATERAL_RATIO == 70

\* 0.1 ether
MinimumStake == 2

\* totalLiquidity set by the constructor (1000000 * 10**18)
InitialLiquidity == 3

\* msg.sender of the constructor
VaultOwner == 1

ZeroAddress == 0

\* a bytes32 value given as a number, in the shape of the hash outputs
HexOf(k) == <<"hex", <<"num", k, 0>> >>

\* bytes32(0)
ZeroHash == HexOf(0)

\* the accounts that hold a position
VaultAddresses == 1..2

VaultDeployed ==
    [userStakes     |-> [u \in VaultAddresses |-> 0],
     userBorrows    |-> [u \in VaultAddresses |-> 0],
     userCollateral |-> [u \in VaultAddresses |-> 0],
     usedProofs     |-> {},
     totalStaked    |-> 0,
     totalBorrowed  |-> 0,
     totalLiquidity |-> InitialLiquidity,
     paused         |-> FALSE,
     balance        |-> 0]

InWord(x) == x >= 0 /\ x < WordModulus

VaultReverted(st, reason) == [outcome |-> reason, state |-> st]

VaultDone(st) == [outcome |-> "ok", state |-> st]

Vault_stakeAVAX(st, sender, value) ==
    IF st.paused THEN VaultReverted(st, "Protocol is paused")
    ELSE IF ~(value > 0) THEN VaultReverted(st, "Must stake positive amount")
    ELSE IF ~(value >= MinimumStake) THEN VaultReverted(st, "Minimum stake is 0.1 AVAX")
    ELSE IF ~InWord(st.userStakes[sender] + value) \/ ~InWord(st.totalStaked + value)
    THEN VaultReverted(st, "Panic")
    ELSE VaultDone([st EXCEPT !.userStakes[sender] = @ + value,
                              !.totalStaked = @ + value,
                              !.balance = @ + value])

\* receive() with userStakes credited and totalStaked left as it was
VaultReceiveWithoutTotal(st, sender, value) ==
    IF value > 0 /\ ~st.paused
    THEN VaultDone([st EXCEPT !.userStakes[sender] = @ + value,
                              !.balance = @ + value])
    ELSE VaultDone([st EXCEPT !.balance = @ + value])

\* a plain transfer of AVAX to the contract
Vault_receive(st, sender, value) ==
    IF value > 0 /\ ~st.paused
    THEN IF ~InWord(st.userStakes[sender] + value) \/ ~InWord(st.totalStaked + value)
         THEN VaultReverted(st, "Panic")
         ELSE VaultDone([st EXCEPT !.userStakes[sender] = @ + value,
                                   !.totalStaked = @ + value,
                                   !.balance = @ + value])
    ELSE VaultDone([st EXCEPT !.balance = @ + value])

\* the keccak256 of the packed arguments is compared with bytes32(0), which
\* no input of the model hashes to
simulateProofVerification(proofHash, stakeAmount, user) ==
    IF proofHash = ZeroHash THEN FALSE
    ELSE IF stakeAmount = 0 THEN FALSE
    ELSE IF user = ZeroAddress THEN FALSE
    ELSE TRUE

Vault_borrowWithProof(st, proofHash, stakeAmount, user) ==
    IF st.paused THEN VaultReverted(st, "Protocol is paused")
    ELSE IF proofHash = ZeroHash THEN VaultReverted(st, "Invalid proof hash")
    ELSE IF ~(stakeAmount > 0) THEN VaultReverted(st, "Invalid stake amount")
    ELSE IF user = ZeroAddress THEN VaultReverted(st, "Invalid user address")
    ELSE IF proofHash \in st.usedProofs THEN VaultReverted(st, "Proof already used")
    ELSE IF ~simulateProofVerification(proofHash, stakeAmount, user)
    THEN VaultReverted(st, "Proof verification failed")
    ELSE IF ~InWord(stakeAmount * COLLATERAL_RATIO) THEN VaultReverted(st, "Panic")
    ELSE LET borrowAmount == (stakeAmount * COLLATERAL_RATIO) \div 100
         IN  IF ~(borrowAmount <= st.totalLiquidity)
             THEN VaultReverted(st, "Insufficient liquidity")
             ELSE IF \/ ~InWord(st.userBorrows[user] + borrowAmount)
                     \/ ~InWord(st.userCollateral[user] + stakeAmount)
                     \/ ~InWord(st.totalBorrowed + borrowAmount)
             THEN VaultReverted(st, "Panic")
             ELSE VaultDone([st EXCEPT !.usedProofs = @ \cup {proofHash},
                                       !.userBorrows[user] = @ + borrowAmount,
                                       !.userCollateral[user] = @ + stakeAmount,
                                       !.totalBorrowed = @ + borrowAmount,
                                       !.totalLiquidity = @ - borrowAmount])

Vault_repayLoan(st, sender, value) ==
    IF st.paused THEN VaultReverted(st, "Protocol is paused")
    ELSE IF ~(st.userBorrows[sender] > 0) THEN VaultReverted(st, "No active loan")
    ELSE IF ~(value > 0) THEN VaultReverted(st, "Must repay positive amount")
    ELSE LET currentDebt == st.userBorrows[sender]
             repaid      == IF value >= currentDebt THEN currentDebt ELSE value
         IN  IF ~InWord(st.totalBorrowed - repaid) \/ ~InWord(st.totalLiquidity + repaid)
             THEN VaultReverted(st, "Panic")
             \* the excess of a full repayment is transferred back
             ELSE VaultDone([st EXCEPT !.userBorrows[sender] = @ - repaid,
                                       !.totalBorrowed = @ - repaid,
                                       !.totalLiquidity = @ + repaid,
                                       !.balance = @ + repaid])

Vault_withdrawStake(st, sender, amount) ==
    IF st.paused THEN VaultReverted(st, "Protocol is paused")
    ELSE IF ~(amount > 0) THEN VaultReverted(st, "Invalid amount")
    ELSE IF ~(st.userStakes[sender] >= amount) THEN VaultReverted(st, "Insufficient stake")
    ELSE IF ~(st.userBorrows[sender] = 0) THEN VaultReverted(st, "Active loan exists")
    ELSE IF ~InWord(st.totalStaked - amount) THEN VaultReverted(st, "Panic")
    \* payable(msg.sender).transfer(amount) reverts when the balance is short
    ELSE IF st.balance < amount THEN VaultReverted(st, "transfer failed")
    ELSE VaultDone([st EXCEPT !.userStakes[sender] = @ - amount,
                              !.totalStaked = @ - amount,
                              !.balance = @ - amount])

Vault_pause(st, sender) ==
    IF sender # VaultOwner THEN VaultReverted(st, "Only owner")
    ELSE VaultDone([st EXCEPT !.paused = TRUE])

Vault_unpause(st, sender) ==
    IF sender # VaultOwner THEN VaultReverted(st, "Only owner")
    ELSE VaultDone([st EXCEPT !.paused = FALSE])

Vault_addLiquidity(st, sender, value) ==
    IF sender # VaultOwner THEN VaultReverted(st, "Only owner")
    ELSE IF ~InWord(st.totalLiquidity + value) THEN VaultReverted(st, "Panic")
    ELSE VaultDone([st EXCEPT !.totalLiquidity = @ + value, !.balance = @ + value])

Vault_emergencyWithdraw(st, sender) ==
    IF sender # VaultOwner THEN VaultReverted(st, "Only owner")
    ELSE VaultDone([st EXCEPT !.balance = 0])

(***************************************************************************)
(* frontend: the borrowWithProof handler of App.tsx                        *)
(***************************************************************************)

\* '0x' + BigInt(nullifierHash).toString(16).padStart(64, '0')
NullifierAsProofHash(nullifierHash) == <<"hex", nullifierHash>>

\* VaultSDK.verifyProof of App.tsx: proofHash && eventData && blockHash
MockVerifyProof(proof) == proof.proofHash # ZeroHash

AppOutcome(st, zk, report, issued) ==
    [state |-> st, zk |-> zk, report |-> report, issued |-> issued]

\* generatedProof is what the generate handlers stored; contract is the
\* ethers Contract built from CONTRACT_ADDRESS and CONTRACT_ABI, which is the
\* deployed VaultSDKProtocol
AppBorrowWithProof(st, generatedProof, stakeAmountWei, account) ==
    IF generatedProof.type = "zk-snark-groth16"
    THEN IF ~(verifyProductionProof(generatedProof.body)).accepted
         THEN AppOutcome(st, "not sent", "Borrowing failed", FALSE)
         ELSE \* contract.borrowWithRealZKProof is no function of CONTRACT_ABI:
              \* the call throws before a transaction is sent, and the inner
              \* catch, which takes every error of the attempt, borrows
              \* through borrowWithProof with the nullifier as proof hash
              LET proofHash == NullifierAsProofHash(generatedProof.body.nullifierHash)
                  tx == Vault_borrowWithProof(st, proofHash, stakeAmountWei, account)
              IN  IF tx.outcome = "ok"
                  THEN AppOutcome(tx.state, "failed", "SUCCESS (legacy mode)", TRUE)
                  ELSE AppOutcome(st, "failed", "Borrowing failed", FALSE)
    ELSE IF ~MockVerifyProof(generatedProof)
         THEN AppOutcome(st, "none", "Borrowing failed", FALSE)
         ELSE LET tx == Vault_borrowWithProof(st, generatedProof.proofHash,
                                              stakeAmountWei, account)
              IN  IF tx.outcome = "ok"
                  THEN AppOutcome(tx.state, "none", "SUCCESS", TRUE)
                  ELSE AppOutcome(st, "none", "Borrowing failed", FALSE)

(***************************************************************************)
(* Merkle harness: the inputs are drawn in Init and the functions applied  *)
(***************************************************************************)

MerkleLogUniverse ==
    { [address |-> 1, topics |-> 1, data |-> d, logIndex |-> 0,
       transactionHash |-> 1] : d \in 1..2 }

RECURSIVE SeqsUpTo(_, _)
SeqsUpTo(S, n) ==
    IF n = 0 THEN { <<>> }
    ELSE LET shorter == SeqsUpTo(S, n - 1)
         IN  shorter \cup { Append(s, e) : s \in { t \in shorter : Len(t) = n - 1 }, e \in S }

\* the well-formed 32-byte values a tampered component may be replaced by:
\* every leaf, every node of the first two levels, and some arbitrary values
ReplacementHashes(logs) ==
    LET leaves == { LeafHash(l) : l \in MerkleLogUniverse }
        level1 == { HashPair(a, b) : a \in leaves, b \in leaves }
    IN  leaves \cup level1 \cup { Junk(k) : k \in 1..MaxJunk }

MerkleIdle ==
    /\ mkPc = "off"
    /\ mkLogs = <<>>
    /\ mkIndex = 0
    /\ mkOut = [ok |-> FALSE, error |-> "", value |-> NoMerkleProof]
    /\ mkTampered = NoMerkleProof

MerkleInit ==
    /\ mkPc = "input"
    /\ mkLogs \in SeqsUpTo(MerkleLogUniverse, MaxLogs)
    /\ mkIndex \in 0..MaxLogs
    /\ mkOut = [ok |-> FALSE, error |-> "", value |-> NoMerkleProof]
    /\ mkTampered = NoMerkleProof

MerkleGenerate ==
    /\ mkPc = "input"
    /\ mkOut' = generateMerkleProof(mkLogs, mkIndex)
    /\ mkPc' = "generated"
    /\ mkTampered' = (generateMerkleProof(mkLogs, mkIndex)).value
    /\ UNCHANGED <<mkLogs, mkIndex>>
    /\ UNCHANGED notMerkle

MerkleTamperLeaf ==
    /\ mkPc = "generated"
    /\ mkOut.ok
    /\ \E h \in ReplacementHashes(mkLogs) \ {mkOut.value.leaf} :
          mkTampered' = [mkOut.value EXCEPT !.leaf = h]
    /\ mkPc' = "tampered"
    /\ UNCHANGED <<mkLogs, mkIndex, mkOut>>
    /\ UNCHANGED notMerkle

MerkleTamperSibling ==
    /\ mkPc = "generated"
    /\ mkOut.ok
    /\ \E k \in 1..Len(mkOut.value.proof) :
       \E h \in ReplacementHashes(mkLogs) \ {mkOut.value.proof[k]} :
          mkTampered' = [mkOut.value EXCEPT !.proof[k] = h]
    /\ mkPc' = "tampered"
    /\ UNCHANGED <<mkLogs, mkIndex, mkOut>>
    /\ UNCHANGED notMerkle

MerkleTamperRoot ==
    /\ mkPc = "generated"
    /\ mkOut.ok
    /\ \E h \in ReplacementHashes(mkLogs) \ {mkOut.value.root} :
          mkTampered' = [mkOut.value EXCEPT !.root = h]
    /\ mkPc' = "tampered"
    /\ UNCHANGED <<mkLogs, mkIndex, mkOut>>
    /\ UNCHANGED notMerkle

MerkleNext ==
    \/ MerkleGenerate
    \/ MerkleTamperLeaf
    \/ MerkleTamperSibling
    \/ MerkleTamperRoot


(***************************************************************************)
(* Event-proof harness: a proof is generated from the chain, or built by   *)
(* a party whose own provider serves a fabricated receipt, then possibly   *)
(* altered, then handed to verifyProof                                     *)
(***************************************************************************)

\* an event no transaction of the chain emitted
FakeEvent == Event(9, 9, 9, 0, 9)

\* receipts a lying provider serves to generateProof
FabricatedLogLists ==
    SeqsUpTo({FakeEvent, Event(1, 1, 1, 0, 1)}, 2) \ { << >> }

TamperHashes(p) ==
    { LeafHash(FakeEvent), LeafHash(p.eventData), Malformed } \cup { Junk(k) : k \in 1..MaxJunk }

TamperSignatures ==
    { createBlockSignature(b.hash, generateValidatorSetHash(c.number)) :
        b \in ChainBlocks, c \in ChainBlocks } \cup { Junk(1) }

TamperValidatorSets ==
    { generateValidatorSetHash(b.number) : b \in ChainBlocks } \cup { Junk(1), Malformed }

TamperEvents(p) ==
    { FakeEvent, Event(1, 1, 1, 0, 1),
      [p.eventData EXCEPT !.transactionHash = 9],
      [p.eventData EXCEPT !.logIndex = 1 - (p.eventData.logIndex % 2)] }

\* every proof object that differs from p in one field
OneFieldChanges(p) ==
    LET mp == p.merkleProof
    IN  ( { [p EXCEPT !.version = "2.0.0"] }
          \cup { [p EXCEPT !.blockHeight = b.number] : b \in ChainBlocks }
          \cup { [p EXCEPT !.blockHash = h] : h \in 1..3 }
          \cup { [p EXCEPT !.merkleProof.leaf = h] : h \in TamperHashes(p) }
          \cup { [p EXCEPT !.merkleProof.root = h] : h \in TamperHashes(p) }
          \cup { [p EXCEPT !.merkleProof.proof[k] = h] :
                    k \in 1..Len(mp.proof), h \in TamperHashes(p) }
          \cup { [p EXCEPT !.merkleProof.proof = SubSeq(mp.proof, 2, Len(mp.proof))] }
          \cup { [p EXCEPT !.merkleProof.index = i] : i \in 0..1 }
          \cup { [p EXCEPT !.eventData = e] : e \in TamperEvents(p) }
          \cup { [p EXCEPT !.signatures.blockSignature = g] : g \in TamperSignatures }
          \cup { [p EXCEPT !.signatures.validatorSetHash = v] : v \in TamperValidatorSets }
          \cup { [p EXCEPT !.timestamp = t] : t \in 0..MaxClock }
        ) \ {p}

NoGen == [tx |-> 0, opt |-> NoOption, ok |-> FALSE, error |-> ""]

NoVerify ==
    [mode |-> "answer", now |-> 0, proof |-> NoProof,
     block |-> NoBlock,
     result |-> VerifyResult(FALSE, FALSE, FALSE, FALSE, FALSE, << >>, << >>)]

CpIdle ==
    /\ cpPc = "off"
    /\ cpGen = NoGen
    /\ cpProof = NoProof
    /\ cpOrigin = "none"
    /\ cpTampers = 0
    /\ cpResult = NoVerify
    /\ cpNow = 0

CpInit ==
    /\ cpPc = "start"
    /\ cpGen = NoGen
    /\ cpProof = NoProof
    /\ cpOrigin = "none"
    /\ cpTampers = 0
    /\ cpResult = NoVerify
    /\ cpNow \in 0..MaxClock

\* cpoe.generateProof(tx, {logIndex: opt}) against the chain's provider
CpGenerate ==
    /\ cpPc = "start"
    /\ \E tx \in 1..5, opt \in {NoOption} \cup 0..3, rmode \in ProviderModes,
          bmode \in ProviderModes :
          LET receipt == GetTransactionReceipt(tx, rmode)
              block   == GetBlock(receipt.blockHash, bmode)
              out     == generateProof(tx, opt, receipt, block, cpNow)
          IN  /\ cpGen' = [tx |-> tx, opt |-> opt, ok |-> out.ok, error |-> out.error]
              /\ cpProof' = out.proof
              /\ cpPc' = IF out.ok THEN "have" ELSE "failed"
    /\ cpOrigin' = "generated"
    /\ UNCHANGED <<cpTampers, cpResult, cpNow>>
    /\ UNCHANGED notCpoe

\* generateProof run by a party whose provider serves a receipt it made up,
\* placed in a block that does exist
CpForge ==
    /\ cpPc = "start"
    /\ \E logs \in FabricatedLogLists, b \in ChainBlocks, opt \in {NoOption, 1} :
          LET receipt == [status |-> "receipt", blockHash |-> b.hash,
                          blockNumber |-> b.number, logs |-> logs]
              block   == GetBlock(b.hash, "answer")
              out     == generateProof(9, opt, receipt, block, cpNow)
          IN  /\ cpGen' = [tx |-> 9, opt |-> opt, ok |-> out.ok, error |-> out.error]
              /\ cpProof' = out.proof
              /\ cpPc' = IF out.ok THEN "have" ELSE "failed"
    /\ cpOrigin' = "forged"
    /\ UNCHANGED <<cpTampers, cpResult, cpNow>>
    /\ UNCHANGED notCpoe

\* one field of the proof object is replaced before it reaches the verifier
CpTamper ==
    /\ cpPc = "have"
    /\ cpTampers < MaxTampers
    /\ cpProof' \in OneFieldChanges(cpProof)
    /\ cpTampers' = cpTampers + 1
    /\ cpOrigin' = IF cpOrigin = "forged" THEN "forged" ELSE "tampered"
    /\ UNCHANGED <<cpPc, cpGen, cpResult, cpNow>>
    /\ UNCHANGED notCpoe

\* time passes between generation and verification
CpTick ==
    /\ cpPc = "have"
    /\ cpNow < MaxClock
    /\ cpNow' = cpNow + 1
    /\ UNCHANGED <<cpPc, cpGen, cpProof, cpOrigin, cpTampers, cpResult>>
    /\ UNCHANGED notCpoe

\* cpoe.verifyProof(proof) against the chain's provider
CpVerify ==
    /\ cpPc = "have"
    /\ \E mode \in ProviderModes :
          LET block == GetBlock(cpProof.blockHash, mode)
          IN  cpResult' = [mode |-> mode, now |-> cpNow, proof |-> cpProof,
                           block |-> block,
                           result |-> verifyProof(cpProof, block)]
    /\ cpPc' = "verified"
    /\ UNCHANGED <<cpGen, cpProof, cpOrigin, cpTampers, cpNow>>
    /\ UNCHANGED notCpoe

CpNext ==
    \/ CpGenerate
    \/ CpForge
    \/ CpTamper
    \/ CpTick
    \/ CpVerify

(***************************************************************************)
(* Threshold-proof harness: a generator is called on drawn inputs, or a    *)
(* proof object is made up; the proof at hand is then verified, up to      *)
(* MaxVerifies times, by the verifier of the same class                    *)
(***************************************************************************)

ZkAmounts == {0, 1, 25, 26}
ZkSecrets == 1..2
ZkPathElements == {0, 3}

ZkPrivateInputs ==
    [actualAmount : ZkAmounts, userSecret : ZkSecrets,
     merkleProof : SeqsUpTo(ZkPathElements, MaxPath),
     merkleIndices : SeqsUpTo({0, 1}, MaxPath)]

\* the positions a leaf with this many siblings can have in its tree: one
\* left/right bit per level
ZkTreeIndices(priv) ==
    { ix \in SeqsUpTo({0, 1}, MaxPath) : Len(ix) = Len(priv.merkleProof) }

\* the root of the tree that has this amount as the leaf at position
\* treeIndices with these siblings (the hook computes it with the same
\* hashPair), or a root of some other tree
ProductionRoots(priv, treeIndices) ==
    { ProductionMerkleRoot(priv.actualAmount, priv.merkleProof, treeIndices, 1), 0, 7 }

RealRoots(priv, treeIndices) ==
    { RealMerkleRoot(Str(priv.actualAmount), priv.merkleProof, treeIndices, 1),
      Str(0), Str(7) }

\* proof objects that no generator of the repository returned
MadeUpSignals == { <<m, r, <<"K", 1, 1>> >> : m \in {0, 1}, r \in {0, 7} }

MadeUpProductionPoints(sigs) ==
    LET n == <<"num", 1>>
        g == GenuinePoints(sigs)
    IN  { g,
          [g EXCEPT !.c = << n, n >>],
          [a |-> << n, n >>, b |-> << << n, n >>, << n, n >> >>, c |-> << n, n >>],
          [a |-> << <<"big", 1>>, n >>, b |-> << << n, n >>, << n, n >> >>, c |-> << n, n >>],
          [a |-> << n >>, b |-> << << n, n >>, << n, n >> >>, c |-> << n, n >>],
          [a |-> << n, n >>, b |-> << << n, n >>, << n >> >>, c |-> << n, n >>] }

MadeUpProofs ==
    { [kind |-> "production", version |-> v, protocol |-> "groth16", curve |-> "bn128",
       eventId |-> 1, nullifierHash |-> sigs[3],
       proof |-> [a |-> pts.a, b |-> pts.b, c |-> pts.c, publicSignals |-> sigs]] :
         v \in {"1.0.0-production", "9.9.9"},
         sigs \in MadeUpSignals,
         pts \in UNION { MadeUpProductionPoints(t) : t \in MadeUpSignals } }
    \cup
    { [kind |-> "real", version |-> "1.0.0", protocol |-> "groth16", curve |-> "bn128",
       eventId |-> 1, nullifierHash |-> <<"PZ", 1, 1>>,
       proof |-> [a |-> << <<"R", x>>, <<"R", 1>> >>,
                  b |-> << << <<"R", 1>>, <<"R", 1>> >>, << <<"R", 1>>, <<"R", 1>> >> >>,
                  c |-> << <<"R", y>>, <<"R", 1>> >>,
                  publicSignals |-> << m, Str(7), <<"PZ", 1, 1>> >>]] :
         x \in {0, 1}, y \in {0, 1}, m \in {0, 1} }

NoZkCall ==
    [generator |-> "none", actualAmount |-> 0, userSecret |-> 0,
     merkleProof |-> << >>, merkleIndices |-> << >>, minAmount |-> 0,
     merkleRoot |-> 0, treeIndices |-> << >>]

ZkIdle ==
    /\ zkPc = "off"
    /\ zkInitialized = FALSE
    /\ zkCall = NoZkCall
    /\ zkOut = ZkFailed("", << >>)
    /\ zkProof = NoThresholdProof
    /\ zkVerifies = << >>

\* new ProductionZKProofGenerator(): initializeCircuit runs to its end
\* (it awaits nothing) and sets initialized
ZkInit ==
    /\ zkPc = "start"
    /\ zkInitialized = TRUE
    /\ zkCall = NoZkCall
    /\ zkOut = ZkFailed("", << >>)
    /\ zkProof = NoThresholdProof
    /\ zkVerifies = << >>

ZkCallOf(generator, priv, minAmount, merkleRoot, treeIndices) ==
    [generator |-> generator, actualAmount |-> priv.actualAmount,
     userSecret |-> priv.userSecret, merkleProof |-> priv.merkleProof,
     merkleIndices |-> priv.merkleIndices, minAmount |-> minAmount,
     merkleRoot |-> merkleRoot, treeIndices |-> treeIndices]

ZkGenerateProduction ==
    /\ zkPc = "start"
    /\ \E priv \in ZkPrivateInputs, minAmount \in ZkAmounts :
       \E treeIndices \in ZkTreeIndices(priv) :
       \E merkleRoot \in ProductionRoots(priv, treeIndices) :
          LET out == generateProductionProof(zkInitialized, priv,
                        [minAmount |-> minAmount, merkleRoot |-> merkleRoot, eventId |-> 1])
          IN  /\ zkCall' = ZkCallOf("production", priv, minAmount, merkleRoot, treeIndices)
              /\ zkOut' = out
              /\ zkProof' = out.proof
              /\ zkPc' = IF out.ok THEN "have" ELSE "failed"
    /\ UNCHANGED <<zkInitialized, zkVerifies>>
    /\ UNCHANGED notZk

ZkGenerateReal ==
    /\ zkPc = "start"
    /\ \E priv \in ZkPrivateInputs, minAmount \in ZkAmounts :
       \E treeIndices \in ZkTreeIndices(priv) :
       \E merkleRoot \in RealRoots(priv, treeIndices) :
          LET out == generateRealZKProof(priv,
                        [minAmount |-> minAmount, merkleRoot |-> merkleRoot, eventId |-> 1])
          IN  /\ zkCall' = ZkCallOf("real", priv, minAmount, merkleRoot, treeIndices)
              /\ zkOut' = out
              /\ zkProof' = out.proof
              /\ zkPc' = IF out.ok THEN "have" ELSE "failed"
    /\ UNCHANGED <<zkInitialized, zkVerifies>>
    /\ UNCHANGED notZk

\* a proof object written by hand reaches the verifier
ZkMakeUp ==
    /\ zkPc = "start"
    /\ zkProof' \in MadeUpProofs
    /\ zkPc' = "have"
    /\ UNCHANGED <<zkInitialized, zkCall, zkOut, zkVerifies>>
    /\ UNCHANGED notZk

ZkVerifyProduction ==
    /\ zkPc = "have"
    /\ zkProof.kind = "production"
    /\ Len(zkVerifies) < MaxVerifies
    /\ zkVerifies' = Append(zkVerifies, verifyProductionProof(zkProof))
    /\ UNCHANGED <<zkPc, zkInitialized, zkCall, zkOut, zkProof>>
    /\ UNCHANGED notZk

ZkVerifyReal ==
    /\ zkPc = "have"
    /\ zkProof.kind = "real"
    /\ Len(zkVerifies) < MaxVerifies
    /\ zkVerifies' = Append(zkVerifies, verifyRealZKProof(zkProof))
    /\ UNCHANGED <<zkPc, zkInitialized, zkCall, zkOut, zkProof>>
    /\ UNCHANGED notZk

ZkNext ==
    \/ ZkGenerateProduction
    \/ ZkGenerateReal
    \/ ZkMakeUp
    \/ ZkVerifyProduction
    \/ ZkVerifyReal

(***************************************************************************)
(* Contract harness: borrowWithRealZKProof transactions are submitted and  *)
(* wait in chPending; the chain executes the pending transactions one at a *)
(* time, in any order.  The other functions are called directly.           *)
(***************************************************************************)

ChUsers == 1..2
ChNullifiers == 1..2
ChMinAmounts == {0, 2, 4, SnarkScalarField}
ChMerkleRoot == 7

\* the amount 2 is sent with either nullifier, a larger amount with the
\* first nullifier only and the amount 0 with the second only
ChSignals ==
    { sigs \in { << m, ChMerkleRoot, n >> : m \in ChMinAmounts, n \in ChNullifiers } :
        \/ sigs[1] = 2
        \/ sigs[1] > 2 /\ sigs[3] = 1
        \/ sigs[1] = 0 /\ sigs[3] = 2 }

ChProofOf(pts, sigs) == [pA |-> pts.a, pB |-> pts.b, pC |-> pts.c, publicInputs |-> sigs]

\* the proof computed for the signals it is sent with; for the smallest
\* amount and the second nullifier also the proof computed under the first
\* nullifier, and coordinates off the curve
ChProofs ==
    LET n == <<"num", 1>>
        small == { sigs \in ChSignals : sigs[1] = 2 /\ sigs[3] = 2 }
    IN  { ChProofOf(GenuinePoints(sigs), sigs) : sigs \in ChSignals }
        \cup { ChProofOf(GenuinePoints(<< sigs[1], sigs[2], 3 - sigs[3] >>), sigs) :
                  sigs \in small }
        \cup { ChProofOf([a |-> << n, n >>, b |-> << << n, n >>, << n, n >> >>,
                          c |-> << n, n >>], sigs) : sigs \in small }

ChDeployedOnly ==
    /\ usedNullifiers = {}
    /\ userMinStakeProven = [u \in ChUsers |-> 0]
    /\ userStakes = [u \in ChUsers |-> 0]
    /\ userBorrows = [u \in ChUsers |-> 0]
    /\ chPending = EmptyBag
    /\ chDone = << >>

ChainIdle == chPc = "off" /\ ChDeployedOnly

\* after the constructor: every mapping is empty
ChainInit == chPc = "deployed" /\ ChDeployedOnly

ChCallsSoFar == Len(chDone) + BagCardinality(chPending)

\* what the history keeps of an executed call
ChEntry(op, minAmount, nullifierHash, passes, outcome, events, others) ==
    [op |-> op, minAmount |-> minAmount, nullifierHash |-> nullifierHash,
     passes |-> passes, outcome |-> outcome,
     events |-> [k \in 1..Len(events) |-> events[k].name], others |-> others]

ChSubmitBorrow ==
    /\ chPc = "deployed"
    /\ ChCallsSoFar < MaxCalls
    /\ \E pr \in ChProofs, user \in ChUsers :
          chPending' = chPending (+)
              SetToBag({ [pA |-> pr.pA, pB |-> pr.pB, pC |-> pr.pC,
                          publicInputs |-> pr.publicInputs, user |-> user] })
    /\ UNCHANGED <<chPc, usedNullifiers, userMinStakeProven, userStakes, userBorrows, chDone>>
    /\ UNCHANGED notChain

ChExecuteBorrow ==
    /\ chPc = "deployed"
    /\ \E t \in BagToSet(chPending) :
          LET res == borrowWithRealZKProof(
                        BorrowState(usedNullifiers, userBorrows, userMinStakeProven),
                        t.pA, t.pB, t.pC, t.publicInputs, t.user)
              passes == RealZKVerifier_verifyProof(t.pA, t.pB, t.pC, t.publicInputs) = "true"
              rest == chPending (-) SetToBag({t})
              others == BagCardinality(
                            [o \in { x \in BagToSet(rest) :
                                        x.publicInputs[3] = t.publicInputs[3] } |-> rest[o]])
          IN  /\ usedNullifiers' = res.state.usedNullifiers
              /\ userBorrows' = res.state.userBorrows
              /\ userMinStakeProven' = res.state.userMinStakeProven
              /\ chPending' = rest
              /\ chDone' = Append(chDone, ChEntry("borrowWithRealZKProof", t.publicInputs[1],
                                                  t.publicInputs[3],
                                                  passes, res.outcome, res.events, others))
    /\ UNCHANGED <<chPc, userStakes>>
    /\ UNCHANGED notChain

ChStake ==
    /\ chPc = "deployed"
    /\ ChCallsSoFar < MaxCalls
    /\ \E sender \in ChUsers, value \in 0..1 :
          LET res == stakeAVAX(userStakes, sender, value)
          IN  /\ userStakes' = res.userStakes
              /\ chDone' = Append(chDone, ChEntry("stakeAVAX", 0, 0, FALSE, res.outcome,
                                                  res.events, 0))
    /\ UNCHANGED <<chPc, usedNullifiers, userMinStakeProven, userBorrows, chPending>>
    /\ UNCHANGED notChain

\* verifyTx is public: anyone may call it without borrowing
ChVerifyTx ==
    /\ chPc = "deployed"
    /\ ChCallsSoFar < MaxCalls
    /\ \E pr \in ChProofs :
          LET res == verifyTx(pr.pA, pr.pB, pr.pC, pr.publicInputs)
          IN  chDone' = Append(chDone, ChEntry("verifyTx", pr.publicInputs[1],
                                               pr.publicInputs[3], res.r,
                                               res.outcome, res.events, 0))
    /\ UNCHANGED <<chPc, usedNullifiers, userMinStakeProven, userStakes, userBorrows,
                   chPending>>
    /\ UNCHANGED notChain

ChView ==
    /\ chPc = "deployed"
    /\ ChCallsSoFar < MaxCalls
    /\ \/ \E n \in ChNullifiers :
             chDone' = Append(chDone,
                 ChEntry("isNullifierUsed", 0, n, FALSE,
                         IF isNullifierUsed(usedNullifiers, n) THEN "true" ELSE "false",
                         << >>, 0))
       \/ chDone' = Append(chDone,
                 ChEntry("getZKStats", 0, 0, FALSE,
                         IF getZKStats[3] = ZK_LTV_BONUS - STANDARD_LTV THEN "ok" ELSE "bad",
                         << >>, 0))
    /\ UNCHANGED <<chPc, usedNullifiers, userMinStakeProven, userStakes, userBorrows,
                   chPending>>
    /\ UNCHANGED notChain

ChainNext ==
    \/ ChSubmitBorrow
    \/ ChExecuteBorrow
    \/ ChStake
    \/ ChVerifyTx
    \/ ChView

(***************************************************************************)
(* Attestation harness: createBlockSignature is applied to a drawn         *)
(* (blockHash, validatorSetHash); one of the three arguments may then be   *)
(* replaced by a different 32-byte value; verifyBlockSignature is applied  *)
(***************************************************************************)

AtBlockHashes == 1..4

AtValidatorSets == { generateValidatorSetHash(10), generateValidatorSetHash(11),
                     Junk(1), Junk(2) }

AtSignatures ==
    { createBlockSignature(b, v) : b \in AtBlockHashes, v \in AtValidatorSets }
    \cup { Junk(1) }

AtArgs(blockHash, validatorSetHash, signature) ==
    [blockHash |-> blockHash, validatorSetHash |-> validatorSetHash, signature |-> signature]

AttestIdle ==
    /\ atPc = "off"
    /\ atSigned = AtArgs(0, Junk(0), Junk(0))
    /\ atArgs = AtArgs(0, Junk(0), Junk(0))
    /\ atResult = FALSE

AttestInit ==
    /\ atPc = "input"
    /\ atSigned = AtArgs(0, Junk(0), Junk(0))
    /\ atArgs \in { AtArgs(b, v, Junk(0)) : b \in AtBlockHashes, v \in AtValidatorSets }
    /\ atResult = FALSE

AtSign ==
    /\ atPc = "input"
    /\ LET signed == AtArgs(atArgs.blockHash, atArgs.validatorSetHash,
                            createBlockSignature(atArgs.blockHash, atArgs.validatorSetHash))
       IN  atSigned' = signed /\ atArgs' = signed
    /\ atPc' = "signed"
    /\ UNCHANGED atResult
    /\ UNCHANGED notAttest

AtReplace ==
    /\ atPc = "signed"
    /\ \/ \E b \in AtBlockHashes \ {atArgs.blockHash} :
             atArgs' = [atArgs EXCEPT !.blockHash = b]
       \/ \E v \in AtValidatorSets \ {atArgs.validatorSetHash} :
             atArgs' = [atArgs EXCEPT !.validatorSetHash = v]
       \/ \E g \in AtSignatures \ {atArgs.signature} :
             atArgs' = [atArgs EXCEPT !.signature = g]
    /\ atPc' = "replaced"
    /\ UNCHANGED <<atSigned, atResult>>
    /\ UNCHANGED notAttest

AtVerify ==
    /\ atPc \in {"signed", "replaced"}
    /\ atResult' = verifyBlockSignature(atArgs.blockHash, atArgs.validatorSetHash,
                                        atArgs.signature)
    /\ atPc' = IF atPc = "signed" THEN "verified" ELSE "verified replaced"
    /\ UNCHANGED <<atSigned, atArgs>>
    /\ UNCHANGED notAttest

AttestNext ==
    \/ AtSign
    \/ AtReplace
    \/ AtVerify

(***************************************************************************)
(* VaultSDKProtocol harness: accounts send the contract's transactions in  *)
(* any order, and the frontend's handler borrows with a stored proof       *)
(***************************************************************************)

VaultValues == 0..2

VaultProofHashes == { ZeroHash, HexOf(1) }

VaultStakeAmounts == {0, 3, 4}

\* the proof the generate handlers of the frontend store: of the
\* ProductionZKProofGenerator for a staked amount and the 0.1 AVAX minimum,
\* or of the frontend's VaultSDK
AppZkProof(actualAmount) ==
    LET path == [k \in 1..MaxPath |-> 3]
        ixs  == [k \in 1..MaxPath |-> 0]
    IN  [type |-> "zk-snark-groth16", proofHash |-> ZeroHash,
         body |-> (generateProductionProof(TRUE,
                      [actualAmount |-> actualAmount, userSecret |-> 1,
                       merkleProof |-> path, merkleIndices |-> ixs],
                      [minAmount |-> MinimumStake,
                       merkleRoot |-> ProductionMerkleRoot(actualAmount, path, ixs, 1),
                       eventId |-> 1])).proof]

AppGeneratedProofs ==
    { AppZkProof(a) : a \in {MinimumStake, 3} }
        \cup { [type |-> "merkle", proofHash |-> HexOf(1), body |-> NoThresholdProof] }

NoVaultCall == [op |-> "none", outcome |-> ""]

NoAppFlow == [zk |-> "none", report |-> "", issued |-> FALSE]

VaultIdle ==
    /\ vaPc = "off"
    /\ vault = VaultDeployed
    /\ vaLast = NoVaultCall
    /\ vaCount = 0
    /\ app = NoAppFlow

VaultInit ==
    /\ vaPc = "deployed"
    /\ vault = VaultDeployed
    /\ vaLast = NoVaultCall
    /\ vaCount = 0
    /\ app = NoAppFlow

\* a transaction was mined: its outcome and the storage it left
VaultCalled(op, res) ==
    /\ vault' = res.state
    /\ vaLast' = [op |-> op, outcome |-> res.outcome]
    /\ vaCount' = vaCount + 1
    /\ UNCHANGED <<vaPc, app>>

VaStake ==
    /\ vaPc = "deployed"
    /\ vaCount < MaxCalls
    /\ \E sender \in VaultAddresses, value \in VaultValues :
          VaultCalled("stakeAVAX", Vault_stakeAVAX(vault, sender, value))
    /\ UNCHANGED notVault

VaTransfer ==
    /\ vaPc = "deployed"
    /\ vaCount < MaxCalls
    /\ \E sender \in VaultAddresses, value \in VaultValues :
          VaultCalled("receive", Vault_receive(vault, sender, value))
    /\ UNCHANGED notVault

VaBorrow ==
    /\ vaPc = "deployed"
    /\ vaCount < MaxCalls
    /\ \E proofHash \in VaultProofHashes, stakeAmount \in VaultStakeAmounts,
          user \in {ZeroAddress, 1} :
          VaultCalled("borrowWithProof",
                      Vault_borrowWithProof(vault, proofHash, stakeAmount, user))
    /\ UNCHANGED notVault

VaRepay ==
    /\ vaPc = "deployed"
    /\ vaCount < MaxCalls
    /\ \E sender \in VaultAddresses, value \in VaultValues :
          VaultCalled("repayLoan", Vault_repayLoan(vault, sender, value))
    /\ UNCHANGED notVault

VaWithdraw ==
    /\ vaPc = "deployed"
    /\ vaCount < MaxCalls
    /\ \E sender \in VaultAddresses, amount \in VaultValues :
          VaultCalled("withdrawStake", Vault_withdrawStake(vault, sender, amount))
    /\ UNCHANGED notVault

VaPause ==
    /\ vaPc = "deployed"
    /\ vaCount < MaxCalls
    /\ \E sender \in VaultAddresses : VaultCalled("pause", Vault_pause(vault, sender))
    /\ UNCHANGED notVault

VaUnpause ==
    /\ vaPc = "deployed"
    /\ vaCount < MaxCalls
    /\ \E sender \in VaultAddresses : VaultCalled("unpause", Vault_unpause(vault, sender))
    /\ UNCHANGED notVault

VaAddLiquidity ==
    /\ vaPc = "deployed"
    /\ vaCount < MaxCalls
    /\ \E sender \in VaultAddresses :
          VaultCalled("addLiquidity", Vault_addLiquidity(vault, sender, 1))
    /\ UNCHANGED notVault

VaEmergencyWithdraw ==
    /\ vaPc = "deployed"
    /\ vaCount < MaxCalls
    /\ \E sender \in VaultAddresses :
          VaultCalled("emergencyWithdraw", Vault_emergencyWithdraw(vault, sender))
    /\ UNCHANGED notVault

\* the user presses Borrow in the frontend
VaAppBorrow ==
    /\ vaPc = "deployed"
    /\ vaCount < MaxCalls
    /\ \E generatedProof \in AppGeneratedProofs, stakeAmountWei \in {MinimumStake, 3},
          account \in VaultAddresses :
          LET res == AppBorrowWithProof(vault, generatedProof, stakeAmountWei, account)
          IN  /\ vault' = res.state
              /\ app' = [zk |-> res.zk, report |-> res.report, issued |-> res.issued]
              /\ vaLast' = [op |-> "App.borrowWithProof", outcome |-> res.report]
    /\ vaCount' = vaCount + 1
    /\ UNCHANGED vaPc
    /\ UNCHANGED notVault

VaultNext ==
    \/ VaStake
    \/ VaTransfer
    \/ VaBorrow
    \/ VaRepay
    \/ VaWithdraw
    \/ VaPause
    \/ VaUnpause
    \/ VaAddLiquidity
    \/ VaEmergencyWithdraw
    \/ VaAppBorrow

(***************************************************************************)
(* Specifications                                                          *)
(***************************************************************************)

InitMerkle == MerkleInit /\ CpIdle /\ ZkIdle /\ ChainIdle /\ AttestIdle /\ VaultIdle

SpecMerkle == InitMerkle /\ [][MerkleNext]_vars

InitCPoE == CpInit /\ MerkleIdle /\ ZkIdle /\ ChainIdle /\ AttestIdle /\ VaultIdle

SpecCPoE == InitCPoE /\ [][CpNext]_vars

InitZK == ZkInit /\ MerkleIdle /\ CpIdle /\ ChainIdle /\ AttestIdle /\ VaultIdle

SpecZK == InitZK /\ [][ZkNext]_vars

InitChain == ChainInit /\ MerkleIdle /\ CpIdle /\ ZkIdle /\ AttestIdle /\ VaultIdle

SpecChain == InitChain /\ [][ChainNext]_vars

InitAttest == AttestInit /\ MerkleIdle /\ CpIdle /\ ZkIdle /\ ChainIdle /\ VaultIdle

SpecAttest == InitAttest /\ [][AttestNext]_vars

InitVault == VaultInit /\ MerkleIdle /\ CpIdle /\ ZkIdle /\ ChainIdle /\ AttestIdle

SpecVault == InitVault /\ [][VaultNext]_vars

(***************************************************************************)
(* Claims about the Merkle functions (SpecMerkle)                          *)
(***************************************************************************)

MerkleAccepts(t) == verifyMerkleProof(t.leaf, t.proof, t.root, t.index)

\* C2 (Merkle round-trip): for every non-empty log list and every valid
\* index, the tuple generateMerkleProof returns passes verifyMerkleProof.
C2_MerkleRoundTrip ==
    (mkPc = "generated" /\ mkOut.ok) => MerkleAccepts(mkOut.value)

\* C3 (Merkle tamper detection): from a tuple verifyMerkleProof accepts,
\* replacing the leaf, one sibling or the root by a different value yields a
\* tuple verifyMerkleProof rejects.
C3_TamperDetected ==
    (mkPc = "tampered" /\ MerkleAccepts(mkOut.value)) => ~MerkleAccepts(mkTampered)

\* an accepted tuple with at least two siblings, one of which was replaced
C3_Witness ==
    /\ mkPc = "tampered"
    /\ MerkleAccepts(mkOut.value)
    /\ Len(mkOut.value.proof) >= 2
    /\ mkTampered.proof # mkOut.value.proof
    /\ mkTampered.leaf = mkOut.value.leaf
    /\ mkTampered.root = mkOut.value.root

(***************************************************************************)
(* Claims about AvaxCPoE (SpecCPoE)                                        *)
(***************************************************************************)

\* C1 (event inclusion): verifyProof never returns isValid = true for a proof
\* whose eventData is not a log of a transaction of the block named by the
\* proof's blockHash and blockHeight.
C1_AcceptedEventIsOnChain ==
    (cpPc = "verified" /\ cpResult.result.isValid) =>
        cpResult.proof.eventData \in
            EventsOfBlock(cpResult.proof.blockHash, cpResult.proof.blockHeight)

\* C9 (event-proof round trip): a proof generateProof returned is accepted by
\* verifyProof, with all four detail flags true, when the provider returns
\* the block of the proof's blockHash.
C9_GeneratedProofAccepted ==
    (cpPc = "verified" /\ cpOrigin = "generated" /\ cpResult.mode = "answer") =>
        /\ cpResult.result.isValid
        /\ cpResult.result.details.blockValid
        /\ cpResult.result.details.merkleValid
        /\ cpResult.result.details.signatureValid
        /\ cpResult.result.details.eventValid
        /\ LeafHash(cpResult.proof.eventData) = cpResult.proof.merkleProof.leaf

\* the five checks of verifyProof, each stated on its own
VersionSupported(p) == p.version = SupportedVersion

BlockMatches(p, block) == block.status = "block" /\ block.number = p.blockHeight

MerkleRecomputes(p) ==
    /\ ~MerkleThrows(p.merkleProof.leaf, p.merkleProof.proof)
    /\ ComputeRoot(p.merkleProof.leaf, p.merkleProof.proof, p.merkleProof.index)
          = p.merkleProof.root

AttestationMatches(p) ==
    /\ ~IsMalformed(p.signatures.validatorSetHash)
    /\ p.signatures.blockSignature
          = createBlockSignature(p.blockHash, p.signatures.validatorSetHash)

EventRehashes(p) == LeafHash(p.eventData) = p.merkleProof.leaf

\* C10 (acceptance): verifyProof returns isValid = true exactly when the
\* version is supported, the fetched block exists with number = blockHeight,
\* the Merkle proof recomputes to the root, the attestation matches and the
\* re-hashed eventData equals the leaf; isValid = true implies all four
\* detail flags and an empty error list.
C10_ValidIffAllChecks ==
    cpPc = "verified" =>
        LET p == cpResult.proof
            r == cpResult.result
        IN  /\ r.isValid <=> ( /\ VersionSupported(p)
                               /\ BlockMatches(p, cpResult.block)
                               /\ MerkleRecomputes(p)
                               /\ AttestationMatches(p)
                               /\ EventRehashes(p) )
            /\ r.isValid => /\ r.details.blockValid
                            /\ r.details.merkleValid
                            /\ r.details.signatureValid
                            /\ r.details.eventValid
                            /\ r.errors = << >>

\* a proof altered in its event data passed every check but the last
C10_Witness ==
    /\ cpPc = "verified"
    /\ cpOrigin = "tampered"
    /\ ~cpResult.result.isValid
    /\ cpResult.result.details.signatureValid
    /\ ~EventRehashes(cpResult.proof)

(***************************************************************************)
(* Claims about the threshold-proof generators and verifiers (SpecZK)      *)
(***************************************************************************)

\* C4 (threshold soundness): whenever actualAmount < minAmount, generation
\* fails with the threshold constraint-violation error, the Groth16
\* proof-construction step is not reached, and no proof object is returned.
C4_ThresholdSoundness ==
    (zkCall.generator # "none" /\ zkCall.actualAmount < zkCall.minAmount) =>
        /\ ~zkOut.ok
        /\ zkOut.error \in {ConstraintThreshold, RealConstraintThreshold}
        /\ \A k \in 1..Len(zkOut.steps) : zkOut.steps[k] # "groth16"
        /\ zkOut.proof = NoThresholdProof
        /\ zkProof = NoThresholdProof
        /\ zkPc = "failed"

\* a call with an amount below the threshold whose Merkle path and root are
\* otherwise right
C4_Witness ==
    /\ zkCall.generator = "production"
    /\ zkCall.actualAmount = 1
    /\ zkCall.minAmount = 25
    /\ zkCall.merkleProof = << >>
    /\ zkPc = "failed"

\* C5 (pairing check): a threshold proof is accepted only if the Groth16
\* pairing equation holds for its points, public signals and the
\* verification key.
C5_AcceptedOnlyIfPairingHolds ==
    \A k \in 1..Len(zkVerifies) :
        zkVerifies[k].accepted =>
            PairingEquationHolds(zkProof.proof.a, zkProof.proof.b, zkProof.proof.c,
                                 zkProof.proof.publicSignals)

\* C8 (replay): when the same threshold proof is verified twice by the SDK
\* verifier and the first verification accepts it, the second verification
\* rejects it as a replay.
C8_SecondVerificationRejected ==
    (Len(zkVerifies) >= 2 /\ zkVerifies[1].accepted) => ~zkVerifies[2].accepted

(***************************************************************************)
(* Claims about RealZKCrossLendProtocol (SpecChain)                        *)
(***************************************************************************)

BorrowEntries(n) ==
    { i \in 1..Len(chDone) :
        chDone[i].op = "borrowWithRealZKProof" /\ chDone[i].nullifierHash = n }

\* the executed borrow attempts carrying n whose proof passes verifyTx
PassingAttempts(n) == { i \in BorrowEntries(n) : chDone[i].passes }

AcceptedAttempts(n) == { i \in BorrowEntries(n) : chDone[i].outcome = "ok" }

LastCall == chDone'[Len(chDone')]

CallExecuted == Len(chDone') = Len(chDone) + 1

\* C7 (registry frame): usedNullifiers only grows; it grows by exactly the
\* nullifierHash of a borrowWithRealZKProof call whose proof verification
\* succeeded and whose nullifierHash was not used before the call; every
\* accepted call adds its nullifierHash; and a call that fails or reverts
\* leaves usedNullifiers, userBorrows and userMinStakeProven unchanged.
C7_RegistryFrame ==
    [][ /\ usedNullifiers \subseteq usedNullifiers'
        /\ usedNullifiers' # usedNullifiers =>
              /\ CallExecuted
              /\ LastCall.op = "borrowWithRealZKProof"
              /\ LastCall.passes
              /\ LastCall.outcome = "ok"
              /\ LastCall.nullifierHash \notin usedNullifiers
              /\ usedNullifiers' = usedNullifiers \cup {LastCall.nullifierHash}
        /\ (CallExecuted /\ LastCall.op = "borrowWithRealZKProof" /\ LastCall.outcome = "ok") =>
              /\ LastCall.nullifierHash \notin usedNullifiers
              /\ LastCall.nullifierHash \in usedNullifiers'
        /\ (CallExecuted /\ ~(LastCall.op = "borrowWithRealZKProof" /\ LastCall.outcome = "ok")) =>
              UNCHANGED <<usedNullifiers, userBorrows, userMinStakeProven>>
      ]_vars

\* a nullifier is in the registry and the last borrow attempt, for another
\* nullifier, failed verification and changed nothing
C7_Witness ==
    /\ usedNullifiers = {1}
    /\ Len(chDone) >= 2
    /\ chDone[Len(chDone)].op = "borrowWithRealZKProof"
    /\ chDone[Len(chDone)].nullifierHash = 2
    /\ chDone[Len(chDone)].outcome = "ZK proof verification failed"

(***************************************************************************)
(* Further claims about event proofs (SpecCPoE)                            *)
(***************************************************************************)

\* C11 (version gating, event proofs): a proof whose version is not the
\* supported version is rejected by verifyProof with the unsupported-version
\* error and nothing else was done for it: no block fetch, no Merkle
\* recomputation, no attestation check, no event re-hash.
C11_VersionCheckedFirst ==
    (cpPc = "verified" /\ cpResult.proof.version # SupportedVersion) =>
        /\ ~cpResult.result.isValid
        /\ cpResult.result.errors = <<"Unsupported proof version">>
        /\ cpResult.result.calls = << >>
        /\ cpResult.result.details =
              [merkleValid |-> FALSE, signatureValid |-> FALSE,
               blockValid |-> FALSE, eventValid |-> FALSE]

\* a generated proof, valid but for its version field, was verified against
\* a provider that answers
C11_Witness ==
    /\ cpPc = "verified"
    /\ cpOrigin = "tampered"
    /\ cpGen.ok
    /\ cpResult.mode = "answer"
    /\ cpResult.proof.version = "2.0.0"
    /\ verifyProof([cpResult.proof EXCEPT !.version = SupportedVersion],
                   cpResult.block).isValid

(***************************************************************************)
(* Further claims about threshold proofs (SpecZK)                          *)
(***************************************************************************)

\* the version, protocol and curve the generator of this class writes
ZkFieldsSupported(proof) ==
    /\ proof.version = (IF proof.kind = "production" THEN "1.0.0-production" ELSE "1.0.0")
    /\ proof.protocol = "groth16"
    /\ proof.curve = "bn128"

\* C12 (version gating, threshold proofs): a threshold proof whose version,
\* protocol or curve field is not the one the verifier supports is rejected.
C12_UnsupportedFieldsRejected ==
    \A k \in 1..Len(zkVerifies) :
        ~ZkFieldsSupported(zkProof) => ~zkVerifies[k].accepted

\* C13 (malformed proofs): a threshold proof with a group element that is
\* not a point of the BN128 curve is never accepted by verification, even
\* when every coordinate is below the field modulus.
C13_OffCurveRejected ==
    \A k \in 1..Len(zkVerifies) :
        (zkProof.kind = "production" /\ zkVerifies[k].accepted) =>
            PointsOnCurve(zkProof.proof.a, zkProof.proof.b, zkProof.proof.c)

(***************************************************************************)
(* Further claims about RealZKCrossLendProtocol (SpecChain)                *)
(***************************************************************************)

\* C14 (degenerate threshold): no threshold-proof verification entry point
\* accepts a proof whose public signal minAmount is not greater than 0; on
\* chain, no borrowWithRealZKProof call with minAmount = 0 is accepted.
C14_ZeroMinAmountRejected ==
    \A i \in 1..Len(chDone) :
        (chDone[i].op = "borrowWithRealZKProof" /\ chDone[i].outcome = "ok") =>
            chDone[i].minAmount > 0

\* the root handed to the generator is the root of the caller's tree
ZkRootIsTreeRoot ==
    zkCall.merkleRoot =
        IF zkCall.generator = "production"
        THEN ProductionMerkleRoot(zkCall.actualAmount, zkCall.merkleProof, zkCall.treeIndices, 1)
        ELSE RealMerkleRoot(Str(zkCall.actualAmount), zkCall.merkleProof, zkCall.treeIndices, 1)

\* the left/right indices handed to the generator are the leaf's position
ZkIndicesAreTreeIndices ==
    \A i \in 1..Len(zkCall.merkleProof) :
        PathIndexIsLeft(zkCall.merkleIndices, i) = (zkCall.treeIndices[i] = 0)

\* C15 (membership constraint): generation fails and returns no proof
\* whenever actualAmount is not included under merkleRoot along the path
\* given by the path elements and path indices, also when the path elements
\* are right and only the left/right indices are wrong; the error is the
\* invalid-membership error unless the threshold constraint failed first.
C15_MembershipEnforced ==
    (zkCall.generator # "none" /\ ~(ZkRootIsTreeRoot /\ ZkIndicesAreTreeIndices)) =>
        /\ ~zkOut.ok
        /\ zkOut.proof = NoThresholdProof
        /\ zkCall.actualAmount >= zkCall.minAmount =>
               zkOut.error \in {ConstraintMerkle, RealConstraintMerkle}

\* C16 (public signals): every successfully generated threshold proof has
\* publicSignals = [minAmount, merkleRoot, nullifierHash] in this order, with
\* minAmount and merkleRoot the caller's public inputs unchanged and
\* nullifierHash the hash of (userSecret, actualAmount) and of nothing else;
\* the proof's top-level nullifierHash equals publicSignals[2].
C16_PublicSignals ==
    zkOut.ok =>
        LET hash == IF zkCall.generator = "production"
                    THEN <<"K", zkCall.userSecret, zkCall.actualAmount>>
                    ELSE <<"PZ", zkCall.userSecret, zkCall.actualAmount>>
        IN  /\ zkOut.proof.proof.publicSignals = << zkCall.minAmount, zkCall.merkleRoot, hash >>
            /\ zkOut.proof.nullifierHash = zkOut.proof.proof.publicSignals[3]

\* a proof was generated for a secret and an amount that differ, over a
\* one-level path, with a threshold below the amount
C16_Witness ==
    /\ zkOut.ok
    /\ zkCall.generator = "production"
    /\ zkCall.userSecret = 2
    /\ zkCall.actualAmount = 25
    /\ zkCall.minAmount = 1
    /\ Len(zkCall.merkleProof) = 1
    /\ zkProof = zkOut.proof

\* the number a field of a proof object spells out when it is a decimal
\* string of the model's range, -1 when it is a hash output or a coordinate
\* fixed in the code
DecimalOf(x) == IF x[1] = "n" THEN x[2] ELSE -1

ProofCoordinates(p) ==
    { p.proof.a[1], p.proof.a[2], p.proof.c[1], p.proof.c[2],
      p.proof.b[1][1], p.proof.b[1][2], p.proof.b[2][1], p.proof.b[2][2] }

\* merkleRoot is a number for the production generator and a big integer
\* for the other one
MerkleRootSignal(p) ==
    IF p.kind = "production"
    THEN p.proof.publicSignals[2]
    ELSE DecimalOf(p.proof.publicSignals[2])

C18_AttestationRoundTrip ==
    /\ atPc = "verified" => atResult = TRUE
    /\ atPc = "verified replaced" => atResult = FALSE
    /\ atPc \in {"verified", "verified replaced"} =>
          atSigned.signature = createBlockSignature(atSigned.blockHash,
                                                    atSigned.validatorSetHash)

\* the validator-set hash alone was replaced, and the call was made
C18_Witness ==
    /\ atPc = "verified replaced"
    /\ atArgs.blockHash = atSigned.blockHash
    /\ atArgs.signature = atSigned.signature
    /\ atArgs.validatorSetHash # atSigned.validatorSetHash

\* the Merkle roots generateProof computes for the receipts of a block, which
\* are the roots the block's attestation is issued over
AttestedRoots(hash, number) ==
    { (generateMerkleProof((ChainReceipt(t)).logs, 0)).value.root :
        t \in { u \in ChainTxs : /\ (ChainReceipt(u)).blockHash = hash
                                  /\ (ChainReceipt(u)).blockNumber = number
                                  /\ Len((ChainReceipt(u)).logs) > 0 } }

\* C19 (attestation bound to the Merkle root): verifyProof never returns
\* isValid = true for a proof whose merkleProof.root is not a root the
\* attestation of its block was issued over, even when leaf, siblings and
\* eventData are self-consistent with that other root.
C19_AcceptedRootIsAttested ==
    (cpPc = "verified" /\ cpResult.result.isValid) =>
        cpResult.proof.merkleProof.root \in
            AttestedRoots(cpResult.proof.blockHash, cpResult.proof.blockHeight)

\* the index generateProof uses for options.logIndex
RequestedLogIndex == IF cpGen.opt = NoOption THEN 0 ELSE cpGen.opt

\* the logs of the receipt the provider holds for the requested transaction
RequestedLogs ==
    IF cpGen.tx \in ChainTxs THEN (ChainReceipt(cpGen.tx)).logs ELSE << >>

\* the failures generateProof reports before it looks at the log index
ProviderFailures ==
    { "Proof generation failed: provider",
      "Proof generation failed: Transaction not found",
      "Proof generation failed: Block not found" }

\* generateProof has just returned or thrown, on the chain's own receipts
JustGenerated ==
    cpPc \in {"have", "failed"} /\ cpOrigin = "generated" /\ cpTampers = 0

\* C20 (index out of range): when the index is >= the number of logs, the
\* empty log list included, generateProof throws (the out-of-bounds error
\* whenever the provider answered) and returns no proof, and
\* generateMerkleProof on the same logs and index throws from its bounds
\* checks and returns no proof; a proof that is returned is the proof of the
\* log at that index.
C20_OutOfRangeIndexFails ==
    JustGenerated =>
        /\ RequestedLogIndex >= Len(RequestedLogs) =>
              /\ ~cpGen.ok
              /\ cpProof = NoProof
              /\ cpGen.error \in
                    ProviderFailures \cup {"Proof generation failed: Log index out of bounds"}
              /\ generateMerkleProof(RequestedLogs, RequestedLogIndex) =
                    [ok |-> FALSE,
                     error |-> IF Len(RequestedLogs) = 0
                               THEN "No logs provided for Merkle proof generation"
                               ELSE "Target index out of bounds",
                     value |-> NoMerkleProof]
        /\ cpGen.ok =>
              /\ RequestedLogIndex < Len(RequestedLogs)
              /\ cpProof.eventData = RequestedLogs[RequestedLogIndex + 1]
              /\ cpProof.merkleProof.index = RequestedLogIndex

\* generateProof refused index 3 of transaction 1, which has three logs
C20_Witness ==
    /\ JustGenerated
    /\ cpGen.error = "Proof generation failed: Log index out of bounds"
    /\ cpGen.tx = 1
    /\ cpGen.opt = 3

(***************************************************************************)
(* Further claims about the Merkle functions (SpecMerkle)                  *)
(***************************************************************************)

RECURSIVE DuplicatingTreeRoot(_)
\* root of the binary tree over a level in which an odd level is first
\* extended by a copy of its last node and then paired off two by two
DuplicatingTreeRoot(level) ==
    IF Len(level) = 1 THEN level[1]
    ELSE LET even == IF Len(level) % 2 = 1
                     THEN Append(level, level[Len(level)]) ELSE level
         IN  DuplicatingTreeRoot(
                 [k \in 1..(Len(even) \div 2) |-> HashPair(even[2 * k - 1], even[2 * k])])

LeavesOf(logs) == [k \in 1..Len(logs) |-> LeafHash(logs[k])]

\* C21 (odd-level duplication and determinism): the root generateMerkleProof
\* returns is the root of the tree in which the last node of every odd level
\* is paired with itself, and generateMerkleProof returns that same root for
\* every target index of the same log list.
C21_RootIsDuplicatingTreeRoot ==
    (mkPc = "generated" /\ mkOut.ok) =>
        /\ mkOut.value.root = DuplicatingTreeRoot(LeavesOf(mkLogs))
        /\ \A j \in 0..(Len(mkLogs) - 1) :
              (generateMerkleProof(mkLogs, j)).value.root = mkOut.value.root

\* three leaves a, b, c: the root is H(H(a,b), H(c,c))
C21_Witness ==
    /\ mkPc = "generated"
    /\ mkOut.ok
    /\ Len(mkLogs) = 3
    /\ mkIndex = 2
    /\ mkOut.value.root =
          HashPair(HashPair(LeafHash(mkLogs[1]), LeafHash(mkLogs[2])),
                   HashPair(LeafHash(mkLogs[3]), LeafHash(mkLogs[3])))

(***************************************************************************)
(* Further claims about AvaxCPoE.verifyProof (SpecCPoE)                    *)
(***************************************************************************)

\* C22 (independent flags): each detail flag of the result is the outcome of
\* its own check, whatever the outcomes of the other checks: blockValid of
\* the block check, merkleValid of the Merkle recomputation, signatureValid
\* of the attestation check and eventValid of the event re-hash.
C22_FlagsReflectOwnChecks ==
    cpPc = "verified" =>
        LET p == cpResult.proof
            d == cpResult.result.details
        IN  /\ d.blockValid = BlockMatches(p, cpResult.block)
            /\ d.merkleValid = MerkleRecomputes(p)
            /\ d.signatureValid = AttestationMatches(p)
            /\ d.eventValid = EventRehashes(p)

\* the object verifyProof returns
Returned(r) == [isValid |-> r.isValid, details |-> r.details, errors |-> r.errors]

\* the results verifyProof returns for this proof, or for a proof differing
\* from it in one field, when the block of the proof is retrieved and the
\* proof is invalid
InvalidProofResults(p) ==
    { Returned(verifyProof(q, GetBlock(q.blockHash, "answer"))) :
        q \in { x \in {p} \cup OneFieldChanges(p) :
                  /\ (GetBlock(x.blockHash, "answer")).status = "block"
                  /\ ~(verifyProof(x, GetBlock(x.blockHash, "answer"))).isValid } }

\* C23 (unretrievable block surfaced distinctly): the result verifyProof
\* returns when the block cannot be retrieved (the provider finds no block or
\* throws) differs from every result it returns for an invalid proof whose
\* block is retrieved.
C23_UnretrievableBlockDistinct ==
    ( /\ cpPc = "verified"
      /\ VersionSupported(cpResult.proof)
      /\ cpResult.block.status # "block" ) =>
        Returned(cpResult.result) \notin InvalidProofResults(cpResult.proof)

\* C24 (timestamp-based freshness): whether verifyProof accepts a proof
\* depends on the proof's timestamp: an accepted proof would be refused with
\* some other timestamp, older than the time of verification allows.
C24_AcceptanceDependsOnTimestamp ==
    (cpPc = "verified" /\ cpResult.result.isValid) =>
        \E t \in 0..MaxClock :
            ~(verifyProof([cpResult.proof EXCEPT !.timestamp = t], cpResult.block)).isValid

(***************************************************************************)
(* Completeness of the threshold-proof generators (SpecZK)                 *)
(***************************************************************************)

\* C25 (completeness): a proof object returned by generateProductionProof or
\* generateRealZKProof is accepted whenever the verification method of the
\* same generator is applied to it.
C25_GeneratedProofVerifies ==
    (zkOut.ok /\ zkProof = zkOut.proof) =>
        \A k \in 1..Len(zkVerifies) : zkVerifies[k].accepted

(***************************************************************************)
(* Merkle proofs of lists whose length is a power of two (SpecMerkle)      *)
(***************************************************************************)

RECURSIVE Log2(_)
\* the exponent of a power of two
Log2(n) == IF n <= 1 THEN 0 ELSE 1 + Log2(n \div 2)

RECURSIVE IsPowerOfTwo(_)
IsPowerOfTwo(n) == n = 1 \/ (n > 1 /\ n % 2 = 0 /\ IsPowerOfTwo(n \div 2))

\* C26 (power-of-two lists): for a log list of n = 2^k logs and every valid
\* index, generateMerkleProof returns exactly k siblings and the returned
\* tuple passes verifyMerkleProof.
C26_PowerOfTwoProofLength ==
    (mkPc = "generated" /\ mkOut.ok /\ IsPowerOfTwo(Len(mkLogs))) =>
        /\ Len(mkOut.value.proof) = Log2(Len(mkLogs))
        /\ MerkleAccepts(mkOut.value)

\* four leaves, target index 2: a 2-sibling proof that verifies
C26_Witness ==
    /\ mkPc = "generated"
    /\ mkOut.ok
    /\ Len(mkLogs) = 4
    /\ mkIndex = 2
    /\ Len(mkOut.value.proof) = 2
    /\ MerkleAccepts(mkOut.value)

(***************************************************************************)
(* Totality of AvaxCPoE.verifyProof (SpecCPoE)                             *)
(***************************************************************************)

\* C27 (verifyProof is total): whatever the proof object and whatever the
\* provider does (a call that throws and malformed hash strings included),
\* verifyProof returns a result object, never an exception, and a result
\* with isValid = false carries at least one entry in errors.
C27_VerifyProofTotal ==
    cpPc = "verified" =>
        /\ DOMAIN cpResult.result = {"isValid", "details", "errors", "calls"}
        /\ ~cpResult.result.isValid => Len(cpResult.result.errors) >= 1

\* a proof whose leaf is no hex string made arrayify throw inside the Merkle
\* step, and the result reports it
C27_Witness ==
    /\ cpPc = "verified"
    /\ MerkleThrows(cpResult.proof.merkleProof.leaf, cpResult.proof.merkleProof.proof)
    /\ cpResult.block.status = "block"
    /\ cpResult.block.number = cpResult.proof.blockHeight
    /\ ~cpResult.result.isValid
    /\ cpResult.result.errors = <<"Verification error">>

(***************************************************************************)
(* Claims about VaultSDKProtocol and the frontend's borrow flow (SpecVault) *)
(***************************************************************************)

RECURSIVE SumOver(_, _)
\* the sum of a mapping over a set of addresses
SumOver(f, S) ==
    IF S = {} THEN 0
    ELSE LET u == CHOOSE x \in S : TRUE
         IN  f[u] + SumOver(f, S \ {u})

\* C28 (totals): after any sequence of calls, reverted ones included,
\* totalStaked is the sum of userStakes over all users and totalBorrowed is
\* the sum of userBorrows over all users.
C28_TotalsAreSums ==
    /\ vault.totalStaked = SumOver(vault.userStakes, VaultAddresses)
    /\ vault.totalBorrowed = SumOver(vault.userBorrows, VaultAddresses)

\* a user holds a stake and an open loan, and the withdrawal of the stake
\* reverted
C28_Witness ==
    /\ vault.userStakes[1] > 0
    /\ vault.userBorrows[1] > 0
    /\ vault.totalBorrowed > 0
    /\ vaLast.op = "withdrawStake"
    /\ vaLast.outcome = "Active loan exists"

\* C29 (minimum stake): every step that increases a user's recorded stake
\* increases it by at least the 0.1 AVAX minimum.
C29_StakeCreditsAtLeastMinimum ==
    [][\A u \in VaultAddresses :
          vault'.userStakes[u] > vault.userStakes[u] =>
              vault'.userStakes[u] - vault.userStakes[u] >= MinimumStake]_vars

\* C30 (no failure turned into success): when the frontend's attempt to
\* borrow through borrowWithRealZKProof fails, the handler reports the
\* failure and no loan is issued for that proof.
C30_FailedZkBorrowIssuesNoLoan ==
    app.zk = "failed" => (app.report = "Borrowing failed" /\ ~app.issued)

====
